---- MODULE Spec2Model ----
(***************************************************************************)
(* Model of the request governance layer and the budget-constrained        *)
(* pipeline of doc_generator.py:                                           *)
(*   - GeminiDocAgent._track_request / _make_request   (SpecGovernor)      *)
(*   - GeminiDocAgent.create_documentation_plan        (SpecWrap,          *)
(*                                          SpecRepair, SpecTier)          *)
(*   - the fence cleanup of a response text            (SpecFence)         *)
(*   - GeminiDocAgent._extract_code_blocks             (SpecExtract)       *)
(*   - DocumentationGenerator.generate / main          (Spec, SpecRun,     *)
(*                                                      SpecRunFair)       *)
(* Time is counted in whole seconds.  Texts are sequences of one-character *)
(* strings, so that lower-casing and substring tests are computed.         *)
(***************************************************************************)
EXTENDS Integers, Sequences, FiniteSets, TLC

VARIABLES
    \* ---- GeminiDocAgent (governor) ----
    now,                      \* time.time()
    request_timestamps,       \* self.request_timestamps
    max_requests_per_minute,  \* self.max_requests_per_minute
    max_retries,              \* self.max_retries
    type_delays,              \* self.plan_request_delay ... self.diagram_request_delay
    gpc,                      \* position inside _make_request
    retry_attempt,            \* loop variable of the retry loop
    last_exception,           \* last_exception of _make_request
    outcome,                  \* what the last _make_request gave its caller
    calls,                    \* number of _make_request calls started
    \* ---- observation of the governor (history) ----
    admitted,                 \* timestamps recorded, still within the trailing window
    invocations,              \* times of model.generate_content calls, same window
    callInvocations,          \* generate_content calls made by the current call
    lastBackoff,              \* the last backoff sleep of the current call
    nBackoffs,                \* number of backoff sleeps of the current call
    svcText,                  \* text of the successful attempt of the current call
    waited,                   \* seconds the last admission check blocked
    \* ---- DocumentationGenerator (pipeline) ----
    response,                 \* what json.loads makes of the planning response
    project_name,             \* self.project_name
    max_screenshots,          \* self.max_screenshots
    max_mermaid_diagrams,     \* self.max_mermaid_diagrams
    enable_screenshots,       \* ENABLE_SCREENSHOTS
    enable_mermaid,           \* ENABLE_MERMAID_DIAGRAMS
    live_urls,                \* number of LIVE_APP_URL_* (0 when LIVE_APP_ENABLED is off)
    planResult,               \* what create_documentation_plan returned or raised
    phase,                    \* position of generate()
    sub,                      \* position inside the body of the content loop
    idx,                      \* i of the content loop
    j,                        \* j of the target loop
    to_capture,               \* screenshots_to_capture
    sections,                 \* plan.sections
    screenshot_count,         \* self.screenshot_count
    mermaid_count,            \* self.mermaid_count
    live_idx,                 \* live URLs handled
    diagram_candidates,       \* diagram_candidates, sorted
    cidx,                     \* position in diagram_candidates
    status,                   \* what main() returned, -1 while it runs
    assembled,                \* sections handed to assembler.add_section
    govCalls,                 \* _make_request calls of the run
    failure,                  \* the call whose exception left generate()
    \* ---- observation of a governed run ----
    paced,                    \* pacing of the last _make_request call of the run
    \* ---- fence cleanup of a response ----
    apc,                      \* position of the function under study
    raw,                      \* the response text
    body,                     \* the JSON body the text was wrapped around
    plan_cleaned,             \* the text after the cleanup of create_documentation_plan
    targets_cleaned,          \* ... of identify_screenshot_targets
    test_cleaned,             \* ... of test_json_fix.clean_json
    recleaned,                \* the cleanup applied to its own result
    \* ---- create_documentation_plan on a wrapped value ----
    value,                    \* the value V
    wrap_key,                 \* the wrapper key k
    plan_bare,                \* outcome for V
    plan_wrapped,             \* outcome for {k: V}
    \* ---- _extract_code_blocks ----
    content_lines,            \* content.split('\n')
    code_blocks,              \* section.code_blocks
    section_content,          \* section.content
    \* ---- section count tiering of create_documentation_plan ----
    min_sections,             \* min_sections
    max_sections,             \* max_sections
    context_len,              \* len(context) as passed in
    actual_min_sections,      \* actual_min_sections
    actual_max_sections       \* actual_max_sections

gvars == <<now, request_timestamps, max_requests_per_minute, max_retries, type_delays, gpc,
           retry_attempt, last_exception, outcome, calls, admitted, invocations,
           callInvocations, lastBackoff, nBackoffs, svcText, waited>>

pcfg == <<response, project_name, max_screenshots, max_mermaid_diagrams,
          enable_screenshots, enable_mermaid, live_urls>>

pvars == <<pcfg, planResult, phase, sub, idx, j, to_capture, sections, screenshot_count,
           mermaid_count, live_idx, diagram_candidates, cidx, status, assembled,
           govCalls, failure>>

tvars == <<min_sections, max_sections, context_len, actual_min_sections,
           actual_max_sections>>

avars == <<paced, apc, raw, body, plan_cleaned, targets_cleaned, test_cleaned, recleaned,
           value, wrap_key, plan_bare, plan_wrapped, content_lines, code_blocks,
           section_content, tvars>>

vars == <<gvars, pvars, avars>>

----------------------------------------------------------------------------
(* Bounds of the model *)
MaxCap == 2
MaxRetries == 3
MaxCalls == 3
MaxSections == 2
MaxScreenshots == 2
MaxDiagrams == 2
MaxLiveUrls == 1
MaxTextLen == 6
MaxLines == 5
MaxSectionCount == 20

(* Program constants *)
WindowSeconds == 60
SafetyMargin == 1
request_delay == 5
base_backoff_delay == 5
ContextLimit == 100000
SmallProjectThreshold == 30000

----------------------------------------------------------------------------
(* Texts *)
LowerChar(c) ==
    CASE c = "A" -> "a" [] c = "B" -> "b" [] c = "C" -> "c" [] c = "D" -> "d" [] c = "E" -> "e"
      [] c = "F" -> "f" [] c = "G" -> "g" [] c = "H" -> "h" [] c = "I" -> "i" [] c = "J" -> "j"
      [] c = "K" -> "k" [] c = "L" -> "l" [] c = "M" -> "m" [] c = "N" -> "n" [] c = "O" -> "o"
      [] c = "P" -> "p" [] c = "Q" -> "q" [] c = "R" -> "r" [] c = "S" -> "s" [] c = "T" -> "t"
      [] c = "U" -> "u" [] c = "V" -> "v" [] c = "W" -> "w" [] c = "X" -> "x" [] c = "Y" -> "y"
      [] c = "Z" -> "z"
      [] OTHER -> c

Lower(s) == [i \in 1..Len(s) |-> LowerChar(s[i])]

Contains(hay, needle) ==
    \E i \in 0..(Len(hay) - Len(needle)) :
        SubSeq(hay, i + 1, i + Len(needle)) = needle

(* Exception messages the service may fail with *)
Msg429 == <<"4", "2", "9">>
MsgQuota == <<"Q", "u", "o", "t", "a">>
MsgRateLimit == <<"R", "A", "T", "E", " ", "L", "I", "M", "I", "T">>
MsgRateDashLimit == <<"r", "a", "t", "e", "-", "l", "i", "m", "i", "t">>
ErrMsgs == {Msg429, MsgQuota, MsgRateLimit, MsgRateDashLimit}

None == <<"N", "o", "n", "e">>
IndexError == <<"I", "n", "d", "e", "x", "E", "r", "r", "o", "r">>
TypeError == <<"T", "y", "p", "e", "E", "r", "r", "o", "r">>

Texts == {<<"o", "k">>, <<" ", "o", "k", " ">>}

RequestTypes == {"plan", "section", "screenshot", "diagram", "default"}

(* Seconds that may pass between the end of one call and the next one *)
Gaps == {0, 30, 55}

----------------------------------------------------------------------------
(* GeminiDocAgent._track_request *)

EvictOld(ts, t) == SelectSeq(ts, LAMBDA x : t - x < WindowSeconds)

WaitTimeNoMargin(ts, t) == WindowSeconds - (t - ts[1])

WaitTime(ts, t) == WindowSeconds - (t - ts[1]) + SafetyMargin

AfterWaitNoEvict(kept, t2) == Append(kept, t2)

AfterWait(kept, t2) == Append(EvictOld(kept, t2), t2)

TrackRequest(ts, t, cap) ==
    LET kept == EvictOld(ts, t) IN
    IF Len(kept) >= cap
    THEN IF kept = << >>
         THEN [err |-> IndexError, ts |-> kept, now |-> t, waited |-> 0]
         ELSE LET w == WaitTime(kept, t) IN
              IF w > 0
              THEN [err |-> None, ts |-> AfterWait(kept, t + w),
                    now |-> t + w, waited |-> w]
              ELSE [err |-> None, ts |-> Append(kept, t), now |-> t, waited |-> 0]
    ELSE [err |-> None, ts |-> Append(kept, t), now |-> t, waited |-> 0]

(* GeminiDocAgent._make_request *)

(* Lines 187-190: every type's delay defaults to the base delay. *)
DefaultDelays ==
    [plan |-> request_delay, section |-> request_delay, screenshot |-> request_delay,
     diagram |-> request_delay]

DelayTimeIgnoringType(request_type) == request_delay

(* Lines 286-294 *)
DelayTime(request_type) ==
    CASE request_type = "plan" -> type_delays.plan
      [] request_type = "section" -> type_delays.section
      [] request_type = "screenshot" -> type_delays.screenshot
      [] request_type = "diagram" -> type_delays.diagram
      [] OTHER -> request_delay

RECURSIVE Pow2(_)
Pow2(n) == IF n <= 0 THEN 1 ELSE 2 * Pow2(n - 1)

IsRateLimitErrorCaseSensitive(e) ==
       \/ Contains(e, <<"4", "2", "9">>)
       \/ Contains(e, <<"q", "u", "o", "t", "a">>)
       \/ Contains(e, <<"r", "a", "t", "e", " ", "l", "i", "m", "i", "t">>)

IsRateLimitError(e) ==
    LET error_str == Lower(e) IN
       \/ Contains(error_str, <<"4", "2", "9">>)
       \/ Contains(error_str, <<"q", "u", "o", "t", "a">>)
       \/ Contains(error_str, <<"r", "a", "t", "e", " ", "l", "i", "m", "i", "t">>)

BackoffDelay(e, attempt) ==
    IF IsRateLimitError(e)
    THEN base_backoff_delay * Pow2(attempt)
    ELSE base_backoff_delay

IsFinalAttemptOffByOne(attempt, retries) == ~(attempt < retries)

IsFinalAttempt(attempt, retries) == ~(attempt < retries - 1)

ReturnText(text) == text

Prune(log, t) == SelectSeq(log, LAMBDA x : t - x < WindowSeconds)

NoBackoff == [attempt |-> -1, error |-> None, delay |-> 0]

NoPacing == [call |-> 0, type |-> "none", delay |-> FALSE, start |-> 0, slept |-> 0,
             admitted_at |-> 0]

GovInit ==
    /\ now = 0
    /\ request_timestamps = << >>
    /\ max_requests_per_minute \in 0..MaxCap
    /\ max_retries \in 0..MaxRetries
    /\ type_delays = DefaultDelays
    /\ gpc = "idle"
    /\ retry_attempt = 0
    /\ last_exception = None
    /\ outcome = [kind |-> "none", value |-> None]
    /\ calls = 0
    /\ admitted = << >>
    /\ invocations = << >>
    /\ callInvocations = 0
    /\ lastBackoff = NoBackoff
    /\ nBackoffs = 0
    /\ svcText = None
    /\ waited = 0

(* Lines 285-301: delay selection, pacing sleep, admission check. *)
MakeRequestBody(request_type, delay, gap) ==
    /\ gpc = "idle"
    /\ LET t0 == now + gap
           t1 == IF delay THEN t0 + DelayTime(request_type) ELSE t0
           tr == TrackRequest(request_timestamps, t1, max_requests_per_minute)
       IN /\ now' = tr.now
          /\ request_timestamps' = tr.ts
          /\ calls' = calls + 1
          /\ retry_attempt' = 0
          /\ last_exception' = None
          /\ callInvocations' = 0
          /\ lastBackoff' = NoBackoff
          /\ nBackoffs' = 0
          /\ svcText' = None
          /\ waited' = tr.waited
          /\ invocations' = Prune(invocations, tr.now)
          /\ IF tr.err = None
             THEN /\ gpc' = "attempt"
                  /\ outcome' = [kind |-> "pending", value |-> None]
                  /\ admitted' = Append(Prune(admitted, tr.now), tr.now)
             ELSE /\ gpc' = "idle"
                  /\ outcome' = [kind |-> "raised", value |-> tr.err]
                  /\ admitted' = Prune(admitted, tr.now)
    /\ UNCHANGED <<max_requests_per_minute, max_retries, type_delays>>

(* _make_request, called at most MaxCalls times *)
MakeRequest(request_type, delay, gap) ==
    /\ calls < MaxCalls
    /\ MakeRequestBody(request_type, delay, gap)
    /\ UNCHANGED <<pvars, avars>>

(* Lines 316-321: an attempt that succeeds. *)
AttemptSucceeds(text) ==
    /\ gpc = "attempt"
    /\ retry_attempt < max_retries
    /\ invocations' = Append(invocations, now)
    /\ callInvocations' = callInvocations + 1
    /\ svcText' = text
    /\ outcome' = [kind |-> "returned", value |-> ReturnText(text)]
    /\ gpc' = "idle"
    /\ UNCHANGED <<now, request_timestamps, max_requests_per_minute, max_retries,
                   type_delays, retry_attempt, last_exception, calls, admitted,
                   lastBackoff, nBackoffs, waited, pvars, avars>>

(* Lines 316-347: an attempt that fails. *)
AttemptFails(e) ==
    /\ gpc = "attempt"
    /\ retry_attempt < max_retries
    /\ callInvocations' = callInvocations + 1
    /\ last_exception' = e
    /\ IF ~IsFinalAttempt(retry_attempt, max_retries)
       THEN LET backoff_delay == BackoffDelay(e, retry_attempt)
                t2 == now + backoff_delay
            IN /\ now' = t2
               /\ lastBackoff' = [attempt |-> retry_attempt, error |-> e,
                                 delay |-> backoff_delay]
               /\ nBackoffs' = nBackoffs + 1
               /\ retry_attempt' = retry_attempt + 1
               /\ invocations' = Prune(Append(invocations, now), t2)
               /\ admitted' = Prune(admitted, t2)
               /\ UNCHANGED <<gpc, outcome>>
       ELSE /\ outcome' = [kind |-> "raised", value |-> e]
            /\ gpc' = "idle"
            /\ invocations' = Append(invocations, now)
            /\ UNCHANGED <<now, retry_attempt, lastBackoff, nBackoffs, admitted>>
    /\ UNCHANGED <<request_timestamps, max_requests_per_minute, max_retries, type_delays,
                   calls, svcText, waited, pvars, avars>>

(* Line 350: the loop ended without returning or raising. *)
RaiseAfterLoop ==
    /\ gpc = "attempt"
    /\ retry_attempt >= max_retries
    /\ outcome' = [kind |-> "raised",
                   value |-> IF last_exception = None THEN TypeError ELSE last_exception]
    /\ gpc' = "idle"
    /\ UNCHANGED <<now, request_timestamps, max_requests_per_minute, max_retries,
                   type_delays, retry_attempt, last_exception, calls, admitted,
                   invocations, callInvocations, lastBackoff, nBackoffs, svcText, waited,
                   pvars, avars>>

GovNext ==
    \/ \E rt \in RequestTypes, d \in BOOLEAN, g \in Gaps : MakeRequest(rt, d, g)
    \/ \E text \in Texts : AttemptSucceeds(text)
    \/ \E e \in ErrMsgs : AttemptFails(e)
    \/ RaiseAfterLoop


----------------------------------------------------------------------------
(* JSON values, as json.loads returns them *)

JNull == [t |-> "null"]
JNum(n) == [t |-> "num", n |-> n]
JBool(b) == [t |-> "bool", b |-> b]
JStr(s) == [t |-> "str", s |-> s]
JArr(a) == [t |-> "arr", a |-> a]
JObj(o) == [t |-> "obj", o |-> o]

(* A response text json.loads rejects *)
Unparseable == [t |-> "unparseable"]

KeyChars(k) ==
    CASE k = "documentation_plan" ->
           <<"d", "o", "c", "u", "m", "e", "n", "t", "a", "t", "i", "o", "n", "_", "p", "l", "a", "n">>
      [] k = "plan" ->
           <<"p", "l", "a", "n">>
      [] k = "title" ->
           <<"t", "i", "t", "l", "e">>
      [] k = "planTitle" ->
           <<"p", "l", "a", "n", "T", "i", "t", "l", "e">>
      [] k = "project_name" ->
           <<"p", "r", "o", "j", "e", "c", "t", "_", "n", "a", "m", "e">>
      [] k = "sections" ->
           <<"s", "e", "c", "t", "i", "o", "n", "s">>
      [] k = "documentationSections" ->
           <<"d", "o", "c", "u", "m", "e", "n", "t", "a", "t", "i", "o", "n", "S", "e", "c", "t", "i", "o", "n", "s">>
      [] k = "chapters" ->
           <<"c", "h", "a", "p", "t", "e", "r", "s">>
      [] k = "content_sections" ->
           <<"c", "o", "n", "t", "e", "n", "t", "_", "s", "e", "c", "t", "i", "o", "n", "s">>
      [] k = "documentation_sections" ->
           <<"d", "o", "c", "u", "m", "e", "n", "t", "a", "t", "i", "o", "n", "_", "s", "e", "c", "t", "i", "o", "n", "s">>
      [] k = "level" ->
           <<"l", "e", "v", "e", "l">>
      [] k = "image_descriptions" ->
           <<"i", "m", "a", "g", "e", "_", "d", "e", "s", "c", "r", "i", "p", "t", "i", "o", "n", "s">>
      [] k = "extra" ->
           <<"e", "x", "t", "r", "a">>

Obj1(k1, v1) == JObj([k \in {k1} |-> v1])
Obj2(k1, v1, k2, v2) == JObj([k \in {k1, k2} |-> IF k = k1 THEN v1 ELSE v2])
Obj3(k1, v1, k2, v2, k3, v3) ==
    JObj([k \in {k1, k2, k3} |-> IF k = k1 THEN v1 ELSE IF k = k2 THEN v2 ELSE v3])

IsContainer(v) == v.t \in {"obj", "arr", "str"}

(* len(v), for the values that have one *)
PyLen(v) ==
    CASE v.t = "obj" -> Cardinality(DOMAIN v.o)
      [] v.t = "arr" -> Len(v.a)
      [] v.t = "str" -> Len(v.s)

(* k in v: key of a dict, element of a list, substring of a str *)
PyIn(k, v) ==
    CASE v.t = "obj" -> k \in DOMAIN v.o
      [] v.t = "arr" -> \E i \in 1..Len(v.a) : v.a[i].t = "str" /\ v.a[i].s = KeyChars(k)
      [] v.t = "str" -> Contains(v.s, KeyChars(k))

(* str(v) inside an f-string *)
Format(v) ==
    CASE v.t = "str" -> v.s
      [] v.t = "num" -> <<"<", "n", "u", "m", ">">>
      [] OTHER -> <<"<", "v", "a", "l", "u", "e", ">">>

DocSuffix == <<" ", "D", "o", "c", "u", "m", "e", "n", "t", "a", "t", "i", "o", "n">>

Ok(pj) == [exc |-> "none", pj |-> pj]
Raise(e, pj) == [exc |-> e, pj |-> pj]

IsWrappedAmongOthers(v, k) == PyIn(k, v)

(* Lines 486-491: unwrap a single known wrapper key. *)
IsWrapped(v, k) == PyLen(v) = 1 /\ PyIn(k, v)

UnwrapOnlyPlan(v) ==
    IF ~IsContainer(v) THEN Raise("TypeError", v)
    ELSE IF IsWrapped(v, "plan")
         THEN IF v.t = "obj" THEN Ok(v.o["plan"]) ELSE Raise("TypeError", v)
    ELSE Ok(v)

Unwrap(v) ==
    IF ~IsContainer(v) THEN Raise("TypeError", v)
    ELSE IF IsWrapped(v, "documentation_plan")
         THEN IF v.t = "obj" THEN Ok(v.o["documentation_plan"]) ELSE Raise("TypeError", v)
    ELSE IF IsWrapped(v, "plan")
         THEN IF v.t = "obj" THEN Ok(v.o["plan"]) ELSE Raise("TypeError", v)
    ELSE Ok(v)

SetItem(pj, k, val) == JObj([x \in DOMAIN pj.o \cup {k} |-> IF x = k THEN val ELSE pj.o[x]])

(* Lines 495-512: one "if src in plan_json and dst not in plan_json" repair. *)
Rename(st, src, dst) ==
    IF st.exc # "none" THEN st
    ELSE IF ~IsContainer(st.pj) THEN Raise("TypeError", st.pj)
    ELSE IF PyIn(src, st.pj) /\ ~PyIn(dst, st.pj)
         THEN IF st.pj.t = "obj"
              THEN Ok(SetItem(st.pj, dst, st.pj.o[src]))
              ELSE Raise("TypeError", st.pj)
    ELSE st

(* Lines 499-500: title from project_name. *)
TitleFromProjectName(st) ==
    IF st.exc # "none" THEN st
    ELSE IF ~IsContainer(st.pj) THEN Raise("TypeError", st.pj)
    ELSE IF ~PyIn("title", st.pj) /\ PyIn("project_name", st.pj)
         THEN IF st.pj.t = "obj"
              THEN Ok(SetItem(st.pj, "title",
                              JStr(Format(st.pj.o["project_name"]) \o DocSuffix)))
              ELSE Raise("TypeError", st.pj)
    ELSE st

(* Lines 516-523: required keys; the diagnostic print reads plan_json.keys(). *)
Validate(st) ==
    IF st.exc # "none" THEN st
    ELSE IF ~IsContainer(st.pj) THEN Raise("TypeError", st.pj)
    ELSE IF ~PyIn("title", st.pj) \/ ~PyIn("sections", st.pj)
         THEN IF st.pj.t = "obj"
              THEN Raise("KeyError", st.pj)
              ELSE Raise("AttributeError", st.pj)
    ELSE st

(* Lines 482-523: the try block. *)
Normalize(resp) ==
    IF resp.t = "unparseable" THEN Raise("JSONDecodeError", resp)
    ELSE LET s0 == Unwrap(resp)
             s1 == IF s0.exc = "none" THEN Rename(s0, "planTitle", "title") ELSE s0
             s2 == TitleFromProjectName(s1)
             s3 == Rename(s2, "documentationSections", "sections")
             s4 == Rename(s3, "chapters", "sections")
             s5 == Rename(s4, "content_sections", "sections")
             s6 == Rename(s5, "documentation_sections", "sections")
         IN Validate(s6)

CaughtOnlyDecodeError(exc) == exc \in {"JSONDecodeError"}

(* Lines 525-541: the exceptions the except clause catches. *)
Caught(exc) == exc \in {"JSONDecodeError", "KeyError"}

TitleOverview == <<"O", "v", "e", "r", "v", "i", "e", "w">>
TitleInstallation == <<"I", "n", "s", "t", "a", "l", "l", "a", "t", "i", "o", "n">>
TitleUsage == <<"U", "s", "a", "g", "e">>
DescExampleUsage == <<"e", "x", "a", "m", "p", "l", "e", " ", "u", "s", "a", "g", "e">>

FallbackPlanJson(name) ==
    Obj2("title", JStr(name \o DocSuffix),
         "sections", JArr(<<
            Obj3("title", JStr(TitleOverview), "level", JNum(1),
                 "image_descriptions", JArr(<< >>)),
            Obj3("title", JStr(TitleInstallation), "level", JNum(1),
                 "image_descriptions", JArr(<< >>)),
            Obj3("title", JStr(TitleUsage), "level", JNum(1),
                 "image_descriptions", JArr(<<JStr(DescExampleUsage)>>)) >>))

RECURSIVE SetToSeq(_)
SetToSeq(S) == IF S = {} THEN << >>
               ELSE LET x == CHOOSE y \in S : TRUE IN <<x>> \o SetToSeq(S \ {x})

(* Iterating a value: the elements of a list, the characters of a str, the keys
   of a dict. *)
Iterable(v) == v.t \in {"arr", "str", "obj"}

Items(v) ==
    CASE v.t = "arr" -> v.a
      [] v.t = "str" -> [i \in 1..Len(v.s) |-> JStr(<<v.s[i]>>)]
      [] v.t = "obj" -> LET ks == SetToSeq(DOMAIN v.o)
                        IN [i \in 1..Len(ks) |-> JStr(KeyChars(ks[i]))]

EmptyText == << >>

(* Lines 545-551: one DocumentSection; exc names what building it raises. *)
BuildSection(s) ==
    IF s.t # "obj"
    THEN [exc |-> "TypeError"]
    ELSE IF "title" \notin DOMAIN s.o \/ "level" \notin DOMAIN s.o
    THEN [exc |-> "KeyError"]
    ELSE LET descs == IF "image_descriptions" \in DOMAIN s.o
                      THEN s.o["image_descriptions"]
                      ELSE JArr(<< >>)
         IN IF ~Iterable(descs)
            THEN [exc |-> "TypeError"]
            ELSE [exc |-> "none",
                  title |-> s.o["title"],
                  level |-> s.o["level"],
                  content |-> EmptyText,
                  images |-> [i \in 1..Len(Items(descs)) |->
                                 [description |-> Items(descs)[i], path |-> EmptyText]],
                  code_blocks |-> << >>]

(* Lines 543-552: DocumentationPlan(...) from plan_json. *)
BuildPlan(pj) ==
    IF pj.t # "obj" THEN [kind |-> "raised", exc |-> "TypeError"]
    ELSE LET secs == pj.o["sections"] IN
         IF ~Iterable(secs) THEN [kind |-> "raised", exc |-> "TypeError"]
         ELSE LET built == [i \in 1..Len(Items(secs)) |-> BuildSection(Items(secs)[i])]
                  bad == {i \in 1..Len(built) : built[i].exc # "none"}
              IN IF bad # {}
                 THEN [kind |-> "raised",
                       exc |-> built[CHOOSE i \in bad : \A k \in bad : i <= k].exc]
                 ELSE [kind |-> "plan", title |-> pj.o["title"], sections |-> built]

(* Lines 458-552, after the request: the plan create_documentation_plan returns
   for a response, or the exception that leaves it. *)
CreatePlan(resp, name) ==
    LET st == Normalize(resp) IN
    IF st.exc = "none" THEN BuildPlan(st.pj) @@ [fallback |-> FALSE]
    ELSE IF Caught(st.exc) THEN BuildPlan(FallbackPlanJson(name)) @@ [fallback |-> TRUE]
    ELSE [kind |-> "raised", exc |-> st.exc, fallback |-> FALSE]

----------------------------------------------------------------------------
(* DocumentationGenerator: configuration and keyword lists *)

KwInstallation == <<"i", "n", "s", "t", "a", "l", "l", "a", "t", "i", "o", "n">>
KwConfiguration == <<"c", "o", "n", "f", "i", "g", "u", "r", "a", "t", "i", "o", "n">>
KwArchitecture == <<"a", "r", "c", "h", "i", "t", "e", "c", "t", "u", "r", "e">>
KwUsage == <<"u", "s", "a", "g", "e">>
KwOverview == <<"o", "v", "e", "r", "v", "i", "e", "w">>
KwDesign == <<"d", "e", "s", "i", "g", "n">>
KwComponents == <<"c", "o", "m", "p", "o", "n", "e", "n", "t", "s">>
KwInterface == <<"i", "n", "t", "e", "r", "f", "a", "c", "e">>
KwIntroduction == <<"i", "n", "t", "r", "o", "d", "u", "c", "t", "i", "o", "n">>

screenshot_priority == <<KwInstallation, KwConfiguration, KwArchitecture, KwUsage>>
diagram_priority_keywords == <<KwOverview, KwArchitecture, KwDesign, KwComponents>>
live_app_keywords == <<KwOverview, KwInterface, KwUsage, KwIntroduction>>

(* Outlines the planning response may carry *)
TitleGuide == <<"G", "u", "i", "d", "e">>
TitleArchitecture == <<"S", "y", "s", "t", "e", "m", " ", "A", "R", "C", "H", "I", "T", "E", "C", "T", "U", "R", "E">>
TitleApi == <<"A", "P", "I", " ", "R", "e", "f", "e", "r", "e", "n", "c", "e">>
DescA == <<"a">>
DescB == <<"b">>

SecOverview == Obj2("title", JStr(TitleOverview), "level", JNum(1))
SecInstallation ==
    Obj3("title", JStr(TitleInstallation), "level", JNum(1),
         "image_descriptions", JArr(<<JStr(DescA), JStr(DescB)>>))
SecArchitecture ==
    Obj3("title", JStr(TitleArchitecture), "level", JNum(2),
         "image_descriptions", JArr(<<JStr(DescA)>>))
SecApi ==
    Obj3("title", JStr(TitleApi), "level", JNum(1),
         "image_descriptions", JArr(<<JStr(DescA)>>))
SecNoLevel == Obj1("title", JStr(TitleApi))
SectionKinds == {SecOverview, SecInstallation, SecArchitecture, SecApi}

SeqsUpTo(S, n) == UNION {[1..m -> S] : m \in 0..n}

Outline(secs) == Obj2("title", JStr(TitleGuide), "sections", JArr(secs))

ProjectName == <<"A", "p", "p">>

PipelineResponses ==
    {Outline(s) : s \in SeqsUpTo(SectionKinds, MaxSections)}
        \cup {Unparseable, Obj1("extra", JNull), JNum(5), JArr(<<SecOverview>>),
              Outline(<<SecOverview, SecNoLevel>>),
              Obj1("plan", Outline(<<SecArchitecture, SecOverview>>))}

ContentText == <<"t", "e", "x", "t">>
ShotPath == <<"s", "h", "o", "t">>
TreePath == <<"t", "r", "e", "e">>
DiagramPath == <<"d", "i", "a", "g">>
LivePath == <<"l", "i", "v", "e">>
DiagramDescPrefix == <<"D", "i", "a", "g", "r", "a", "m", ":", " ">>
LiveDesc == <<"L", "i", "v", "e">>
TargetTypes == {"code_file", "directory_structure", "config_file", "missing"}

NoFailure == [call |-> "none", cause |-> "none", section |-> 0]

NoPlan == [kind |-> "none"]

(* Lines 545-551: the DocumentSection objects of the plan. *)
MakeSection(b) ==
    [title |-> b.title, level |-> b.level, content |-> b.content, images |-> b.images,
     mermaid_diagrams |-> << >>]

MatchesAny(title_lower, keywords) ==
    \E i \in 1..Len(keywords) : Contains(title_lower, keywords[i])

ShouldCaptureScreenshotCaseSensitive(section) ==
    MatchesAny(section.title.s, screenshot_priority)

(* Lines 1607-1623 *)
ShouldCaptureScreenshot(section) ==
    MatchesAny(Lower(section.title.s), screenshot_priority)

Min(a, b) == IF a <= b THEN a ELSE b

ScreenshotsToCaptureIgnoringBudget(section, count, cap) == Len(section.images)

ScreenshotsToCaptureOffByOne(section, count, cap) ==
    Min(Len(section.images), cap - count + 1)

ScreenshotsToCaptureAllRemaining(section, count, cap) == cap - count

(* Lines 1670-1671 *)
ScreenshotsToCapture(section, count, cap) == Min(Len(section.images), cap - count)

(* Line 1665 *)
ScreenshotBudgetLeft(count, cap) == count < cap

(* Lines 1711-1716: rank of the first diagram keyword in the title, -1 without one. *)
PriorityIdx(section) ==
    LET hits == {i \in 1..Len(diagram_priority_keywords) :
                    Contains(Lower(section.title.s), diagram_priority_keywords[i])}
    IN IF hits = {} THEN -1 ELSE (CHOOSE i \in hits : \A k \in hits : i <= k) - 1

Indices(secs) == [i \in 1..Len(secs) |-> i]

DiagramCandidatesUnsorted(secs) ==
    SelectSeq(Indices(secs), LAMBDA i : PriorityIdx(secs[i]) >= 0)

(* Lines 1710-1719: candidates (as positions in the outline), stably sorted by rank. *)
DiagramCandidates(secs) ==
    LET byRank(r) == SelectSeq(Indices(secs), LAMBDA i : PriorityIdx(secs[i]) = r)
    IN byRank(0) \o byRank(1) \o byRank(2) \o byRank(3)

DiagramLimitReachedOffByOne(count, cap) == count > cap

DiagramLimitNeverReached(count, cap) == FALSE

(* Line 1723 *)
DiagramLimitReached(count, cap) == count >= cap

PipeInit ==
    /\ response \in PipelineResponses
    /\ project_name = ProjectName
    /\ max_screenshots \in 0..MaxScreenshots
    /\ max_mermaid_diagrams \in 0..MaxDiagrams
    /\ enable_screenshots \in BOOLEAN
    /\ enable_mermaid \in BOOLEAN
    /\ live_urls \in 0..MaxLiveUrls
    /\ planResult = [kind |-> "none"]
    /\ phase = "planning"
    /\ sub = "content"
    /\ idx = 0
    /\ j = 0
    /\ to_capture = 0
    /\ sections = << >>
    /\ screenshot_count = 0
    /\ mermaid_count = 0
    /\ live_idx = 0
    /\ diagram_candidates = << >>
    /\ cidx = 1
    /\ status = -1
    /\ assembled = << >>
    /\ govCalls = << >>
    /\ failure = NoFailure

AbortReturningZero(call, cause, section) ==
    /\ phase' = "aborted"
    /\ status' = 0
    /\ failure' = [call |-> call, cause |-> cause, section |-> section]

AbortSwallowed(call, cause, section) ==
    /\ phase' = phase
    /\ status' = status
    /\ failure' = [call |-> call, cause |-> cause, section |-> section]

(* main, lines 1842-1846: an exception leaves generate(); main returns 1. *)
Abort(call, cause, section) ==
    /\ phase' = "aborted"
    /\ status' = 1
    /\ failure' = [call |-> call, cause |-> cause, section |-> section]

AdvanceSectionSkippingLast(secs) ==
    /\ sub' = "content"
    /\ j' = 0
    /\ to_capture' = 0
    /\ idx' = idx + 1
    /\ IF idx + 1 >= Len(secs)
       THEN /\ phase' = IF enable_mermaid THEN "diagrams" ELSE "live"
            /\ diagram_candidates' = IF enable_mermaid THEN DiagramCandidates(secs)
                                     ELSE << >>
       ELSE /\ phase' = "writing"
            /\ UNCHANGED diagram_candidates

(* The loop of lines 1655-1696 moves to the next section, or ends (lines 1698-1719). *)
AdvanceSection(secs) ==
    /\ sub' = "content"
    /\ j' = 0
    /\ to_capture' = 0
    /\ idx' = idx + 1
    /\ IF idx + 1 > Len(secs)
       THEN /\ phase' = IF enable_mermaid THEN "diagrams" ELSE "live"
            /\ diagram_candidates' = IF enable_mermaid THEN DiagramCandidates(secs)
                                     ELSE << >>
       ELSE /\ phase' = "writing"
            /\ UNCHANGED diagram_candidates

(* Lines 1639-1643 with create_documentation_plan (lines 456-552). *)
CreateDocumentationPlan(gov_ok) ==
    /\ phase = "planning"
    /\ govCalls' = Append(govCalls, [type |-> "plan", delay |-> FALSE, section |-> 0])
    /\ IF ~gov_ok
       THEN /\ Abort("plan", "governor", 0)
            /\ UNCHANGED <<planResult, sections, sub, idx, j, to_capture,
                           diagram_candidates>>
       ELSE LET plan == CreatePlan(response, project_name) IN
            /\ planResult' = plan
            /\ IF plan.kind = "raised"
               THEN /\ Abort("plan", "structure", 0)
                    /\ UNCHANGED <<sections, sub, idx, j, to_capture, diagram_candidates>>
               ELSE LET secs == [i \in 1..Len(plan.sections) |->
                                    MakeSection(plan.sections[i])]
                    IN /\ sections' = secs
                       /\ AdvanceSection(secs)
                       /\ UNCHANGED <<status, failure>>
    /\ UNCHANGED <<gvars, avars, pcfg, screenshot_count, mermaid_count, live_idx, cidx, assembled>>

(* Lines 1655-1673 with generate_section_content (line 591). *)
GenerateSectionContent(gov_ok) ==
    /\ phase = "writing"
    /\ sub = "content"
    /\ idx <= Len(sections)
    /\ govCalls' = Append(govCalls, [type |-> "section", delay |-> TRUE, section |-> idx])
    /\ IF ~gov_ok
       THEN /\ Abort("section", "governor", idx)
            /\ UNCHANGED <<sections, sub, idx, j, to_capture, diagram_candidates>>
       ELSE LET secs == [sections EXCEPT ![idx].content = ContentText]
                section == secs[idx]
            IN /\ sections' = secs
               /\ UNCHANGED <<status, failure>>
               /\ IF /\ enable_screenshots
                     /\ section.images # << >>
                     /\ ScreenshotBudgetLeft(screenshot_count, max_screenshots)
                     /\ ShouldCaptureScreenshot(section)
                     /\ ScreenshotsToCapture(section, screenshot_count, max_screenshots) > 0
                  THEN /\ sub' = "targets"
                       /\ to_capture' = ScreenshotsToCapture(section, screenshot_count,
                                                             max_screenshots)
                       /\ UNCHANGED <<phase, idx, j, diagram_candidates>>
                  ELSE AdvanceSection(secs)
    /\ UNCHANGED <<gvars, avars, pcfg, planResult, screenshot_count, mermaid_count, live_idx, cidx,
                   assembled>>

(* Line 1675 with identify_screenshot_targets (lines 657-675). *)
IdentifyScreenshotTargets(result) ==
    /\ phase = "writing"
    /\ sub = "targets"
    /\ govCalls' = Append(govCalls, [type |-> "screenshot", delay |-> TRUE,
                                     section |-> idx])
    /\ CASE result = "raised" ->
              /\ Abort("screenshot", "governor", idx)
              /\ UNCHANGED <<sub, idx, j, to_capture, diagram_candidates>>
         [] result = "not_iterable" ->
              /\ Abort("screenshot", "structure", idx)
              /\ UNCHANGED <<sub, idx, j, to_capture, diagram_candidates>>
         [] result = "unparseable" ->
              /\ AdvanceSection(sections)
              /\ UNCHANGED <<status, failure>>
         [] result = "list" ->
              /\ sub' = "capture"
              /\ j' = 0
              /\ UNCHANGED <<phase, idx, to_capture, diagram_candidates, status, failure>>
    /\ UNCHANGED <<gvars, avars, pcfg, planResult, sections, screenshot_count, mermaid_count, live_idx,
                   cidx, assembled>>

(* Lines 1677-1692: one target of the list. *)
CaptureTarget(target_type, captured) ==
    /\ phase = "writing"
    /\ sub = "capture"
    /\ j < to_capture
    /\ IF target_type = "missing"
       THEN /\ Abort("capture", "structure", idx)
            /\ UNCHANGED <<sections, screenshot_count, j>>
       ELSE LET path == IF target_type = "code_file" /\ captured THEN ShotPath
                        ELSE IF target_type = "directory_structure" /\ captured
                             THEN TreePath
                        ELSE EmptyText
            IN /\ IF path # EmptyText
                  THEN /\ sections' = [sections EXCEPT ![idx].images[j + 1].path = path]
                       /\ screenshot_count' = screenshot_count + 1
                  ELSE UNCHANGED <<sections, screenshot_count>>
               /\ j' = j + 1
               /\ UNCHANGED <<phase, status, failure>>
    /\ UNCHANGED <<gvars, avars, pcfg, planResult, sub, idx, to_capture, mermaid_count, live_idx,
                   diagram_candidates, cidx, assembled, govCalls>>

(* Lines 1677-1679: the list of targets is exhausted, or j reached the allowance. *)
EndTargets ==
    /\ phase = "writing"
    /\ sub = "capture"
    /\ AdvanceSection(sections)
    /\ UNCHANGED <<gvars, avars, pcfg, planResult, sections, screenshot_count, mermaid_count, live_idx,
                   cidx, assembled, govCalls, status, failure>>

(* Lines 1751-1761: the diagram is prepended to the images and recorded. *)
AddDiagram(section, path) ==
    [section EXCEPT
       !.images = <<[description |-> JStr(DiagramDescPrefix \o section.title.s),
                     path |-> path]>> \o @,
       !.mermaid_diagrams = Append(@, [description |-> JStr(DiagramDescPrefix),
                                       path |-> path])]

(* Lines 1722-1761: one candidate; generate_diagram_code (lines 975-990) catches
   every exception of the request. *)
GenerateDiagram(result, rendered) ==
    /\ phase = "diagrams"
    /\ cidx <= Len(diagram_candidates)
    /\ ~DiagramLimitReached(mermaid_count, max_mermaid_diagrams)
    /\ govCalls' = Append(govCalls, [type |-> "diagram", delay |-> TRUE,
                                     section |-> diagram_candidates[cidx]])
    /\ IF result = "code" /\ rendered
       THEN /\ sections' = [sections EXCEPT ![diagram_candidates[cidx]] =
                                                AddDiagram(@, DiagramPath)]
            /\ mermaid_count' = mermaid_count + 1
       ELSE UNCHANGED <<sections, mermaid_count>>
    /\ cidx' = cidx + 1
    /\ UNCHANGED <<gvars, avars, pcfg, planResult, phase, sub, idx, j, to_capture, screenshot_count,
                   live_idx, diagram_candidates, status, assembled, failure>>

(* Lines 1722-1725 and 1763: the loop ends, or breaks at the limit. *)
DiagramLoopExit ==
    /\ phase = "diagrams"
    /\ \/ cidx > Len(diagram_candidates)
       \/ DiagramLimitReached(mermaid_count, max_mermaid_diagrams)
    /\ phase' = "live"
    /\ UNCHANGED <<gvars, avars, pcfg, planResult, sub, idx, j, to_capture, sections, screenshot_count,
                   mermaid_count, live_idx, diagram_candidates, cidx, status, assembled,
                   govCalls, failure>>

FirstLiveSection(secs) ==
    LET hits == {i \in 1..Len(secs) : MatchesAny(Lower(secs[i].title.s), live_app_keywords)}
    IN IF hits = {} THEN 0 ELSE CHOOSE i \in hits : \A k \in hits : i <= k

(* Lines 1779-1794: one configured live URL. *)
CaptureLiveUrl(captured) ==
    /\ phase = "live"
    /\ live_idx < live_urls
    /\ live_idx' = live_idx + 1
    /\ IF captured /\ FirstLiveSection(sections) # 0
       THEN sections' = [sections EXCEPT ![FirstLiveSection(sections)].images =
                            Append(@, [description |-> JStr(LiveDesc), path |-> LivePath])]
       ELSE UNCHANGED sections
    /\ UNCHANGED <<gvars, avars, pcfg, planResult, phase, sub, idx, j, to_capture, screenshot_count,
                   mermaid_count, diagram_candidates, cidx, status, assembled, govCalls,
                   failure>>

(* Lines 1799-1831 and main, line 1848. *)
Assemble ==
    /\ phase = "live"
    /\ live_idx >= live_urls
    /\ assembled' = sections
    /\ phase' = "done"
    /\ status' = 0
    /\ UNCHANGED <<gvars, avars, pcfg, planResult, sub, idx, j, to_capture, sections, screenshot_count,
                   mermaid_count, live_idx, diagram_candidates, cidx, govCalls, failure>>

PipeNext ==
    \/ \E ok \in BOOLEAN : CreateDocumentationPlan(ok)
    \/ \E ok \in BOOLEAN : GenerateSectionContent(ok)
    \/ \E r \in {"raised", "not_iterable", "unparseable", "list"} :
          IdentifyScreenshotTargets(r)
    \/ \E t \in TargetTypes, ok \in BOOLEAN : CaptureTarget(t, ok)
    \/ EndTargets
    \/ \E r \in {"raised", "empty", "code"}, ok \in BOOLEAN : GenerateDiagram(r, ok)
    \/ DiagramLoopExit
    \/ \E ok \in BOOLEAN : CaptureLiveUrl(ok)
    \/ Assemble

----------------------------------------------------------------------------
(* Fence cleanup of a response text: create_documentation_plan lines 463-478,
   identify_screenshot_targets lines 659-668, test_json_fix.clean_json *)

IsSpace(c) == c \in {" ", "\n", "\t", "\r"}

RECURSIVE LStrip(_)
LStrip(s) == IF s # << >> /\ IsSpace(s[1]) THEN LStrip(Tail(s)) ELSE s

RECURSIVE RStrip(_)
RStrip(s) ==
    IF s # << >> /\ IsSpace(s[Len(s)]) THEN RStrip(SubSeq(s, 1, Len(s) - 1)) ELSE s

(* str.strip() *)
Strip(s) == RStrip(LStrip(s))

(* The backtick character, which a string of this notation cannot hold *)
Backtick == "BACKTICK"

Fence == <<Backtick, Backtick, Backtick>>

StartsWith(s, p) == Len(s) >= Len(p) /\ SubSeq(s, 1, Len(p)) = p

EndsWith(s, p) == Len(s) >= Len(p) /\ SubSeq(s, Len(s) - Len(p) + 1, Len(s)) = p

(* str.find(c): the position of the first c, counted from 0; -1 without one *)
Find(s, c) ==
    LET hits == {i \in 1..Len(s) : s[i] = c}
    IN IF hits = {} THEN -1 ELSE (CHOOSE i \in hits : \A k \in hits : i <= k) - 1

FindSub(s, p) ==
    LET hits == {i \in 0..(Len(s) - Len(p)) : SubSeq(s, i + 1, i + Len(p)) = p}
    IN IF hits = {} THEN -1 ELSE CHOOSE i \in hits : \A k \in hits : i <= k

(* str.rfind(p): the start of the last p, counted from 0; -1 without one *)
RFind(s, p) ==
    LET hits == {i \in 0..(Len(s) - Len(p)) : SubSeq(s, i + 1, i + Len(p)) = p}
    IN IF hits = {} THEN -1 ELSE CHOOSE i \in hits : \A k \in hits : k <= i

(* s[n:] and s[:n] for 0 <= n *)
From(s, n) == SubSeq(s, n + 1, Len(s))
UpTo(s, n) == SubSeq(s, 1, n)

CleanPlanResponseDedented(text) ==
    LET r1 == Strip(text)
        r2 == IF StartsWith(r1, Fence) /\ Find(r1, "\n") # -1
              THEN From(r1, Find(r1, "\n") + 1)
              ELSE r1
        r3 == IF EndsWith(RStrip(r2), Fence)
              THEN UpTo(r2, RFind(RStrip(r2), Fence))
              ELSE r2
    IN Strip(r3)

CleanPlanResponseFirstFence(text) ==
    LET r1 == Strip(text) IN
    IF StartsWith(r1, Fence)
    THEN LET first_newline == Find(r1, "\n")
             r2 == IF first_newline # -1 THEN From(r1, first_newline + 1) ELSE r1
             r3 == IF EndsWith(RStrip(r2), Fence)
                   THEN UpTo(r2, FindSub(RStrip(r2), Fence))
                   ELSE r2
         IN Strip(r3)
    ELSE Strip(r1)

(* doc_generator.py lines 463-478 *)
CleanPlanResponse(text) ==
    LET r1 == Strip(text) IN
    IF StartsWith(r1, Fence)
    THEN LET first_newline == Find(r1, "\n")
             r2 == IF first_newline # -1 THEN From(r1, first_newline + 1) ELSE r1
             r3 == IF EndsWith(RStrip(r2), Fence)
                   THEN LET last_backticks == RFind(RStrip(r2), Fence)
                        IN UpTo(r2, last_backticks)
                   ELSE r2
         IN Strip(r3)
    ELSE Strip(r1)

(* doc_generator.py lines 659-668 *)
CleanTargetsResponse(text) ==
    LET r1 == Strip(text) IN
    IF StartsWith(r1, Fence)
    THEN LET first_newline == Find(r1, "\n")
             r2 == IF first_newline # -1 THEN From(r1, first_newline + 1) ELSE r1
             r3 == IF EndsWith(RStrip(r2), Fence)
                   THEN LET last_backticks == RFind(RStrip(r2), Fence)
                        IN UpTo(r2, last_backticks)
                   ELSE r2
         IN Strip(r3)
    ELSE Strip(r1)

(* test_json_fix.py lines 5-15 *)
clean_json(text) ==
    LET r1 == Strip(text) IN
    IF StartsWith(r1, Fence)
    THEN LET first_newline == Find(r1, "\n")
             r2 == IF first_newline # -1 THEN From(r1, first_newline + 1) ELSE r1
             r3 == IF EndsWith(RStrip(r2), Fence)
                   THEN LET last_backticks == RFind(RStrip(r2), Fence)
                        IN UpTo(r2, last_backticks)
                   ELSE r2
         IN Strip(r3)
    ELSE Strip(r1)

(* Response texts: every text of at most MaxTextLen characters over fence
   characters, line breaks, blanks and another character; and JSON bodies, bare
   or inside a fence. *)
FenceAlphabet == {Backtick, "\n", " ", "x"}

TextsUpTo(n) == UNION {[1..m -> FenceAlphabet] : m \in 0..n}

JsonBodies ==
    { <<"{", "}">>,
      <<"\"", Backtick, Backtick, Backtick, "\"">>,
      <<"[", "\"", Backtick, Backtick, Backtick, "\"", ",", "\n", "\"", Backtick, Backtick, Backtick, "\"", "]">>,
      <<" ", "[", "1", ",", "\n", "2", "]", "\n">>,
      <<"{", "\"", "a", "\"", ":", "\"", "x", " ", Backtick, Backtick, Backtick, "\"", "}">> }

LeadingBlanks == {<< >>, <<" ", " ">>, <<"\n">>}
TrailingBlanks == {<< >>, <<" ", " ">>, <<"\n">>}
LanguageTags == {<< >>, <<"j", "s", "o", "n">>, <<"j", "s", "o", "n", " ", " ">>}

NoBody == [kind |-> "none", text |-> << >>]

Fenced(lead, tag, J, trail) == lead \o Fence \o tag \o <<"\n">> \o J \o <<"\n">> \o Fence \o trail

FenceInit ==
    /\ apc = "response"
    /\ \/ /\ body = NoBody
          /\ raw \in TextsUpTo(MaxTextLen)
       \/ \E J \in JsonBodies, lead \in LeadingBlanks, tag \in LanguageTags,
             trail \in TrailingBlanks :
             /\ body = [kind |-> "fenced", text |-> J]
             /\ raw = Fenced(lead, tag, J, trail)
       \/ \E J \in JsonBodies, lead \in LeadingBlanks, trail \in TrailingBlanks :
             /\ body = [kind |-> "bare", text |-> J]
             /\ raw = lead \o J \o trail
    /\ plan_cleaned = << >>
    /\ targets_cleaned = << >>
    /\ test_cleaned = << >>
    /\ recleaned = << >>

(* The cleanup, as each of its three copies does it. *)
CleanResponse ==
    /\ apc = "response"
    /\ plan_cleaned' = CleanPlanResponse(raw)
    /\ targets_cleaned' = CleanTargetsResponse(raw)
    /\ test_cleaned' = clean_json(raw)
    /\ apc' = "cleaned"
    /\ UNCHANGED <<gvars, pvars, paced, raw, body, recleaned, value, wrap_key, plan_bare,
                   plan_wrapped, content_lines, code_blocks, section_content, tvars>>

(* The cleanup applied to its own result. *)
CleanAgain ==
    /\ apc = "cleaned"
    /\ recleaned' = CleanPlanResponse(plan_cleaned)
    /\ apc' = "recleaned"
    /\ UNCHANGED <<gvars, pvars, paced, raw, body, plan_cleaned, targets_cleaned,
                   test_cleaned, value, wrap_key, plan_bare, plan_wrapped, content_lines,
                   code_blocks, section_content, tvars>>

FenceNext == CleanResponse \/ CleanAgain

----------------------------------------------------------------------------
(* create_documentation_plan on a value and on the same value under a wrapper key *)

EmptyObject == [k \in {} |-> JNull]

TitleEntries ==
    { EmptyObject,
      "title" :> JStr(TitleGuide),
      "planTitle" :> JStr(TitleGuide),
      "project_name" :> JStr(ProjectName) }

SectionsEntries ==
    { EmptyObject,
      "sections" :> JArr(<<SecOverview>>),
      "chapters" :> JArr(<<SecArchitecture, SecApi>>),
      "documentationSections" :> JArr(<<SecInstallation>>),
      "sections" :> JArr(<<SecNoLevel>>),
      "sections" :> JNum(5) }

OtherEntries == { EmptyObject, "extra" :> JNull }

(* Objects with any choice of title key, sections key and a further key *)
PlainObjects ==
    {JObj(t @@ c @@ x) : t \in TitleEntries, c \in SectionsEntries, x \in OtherEntries}

WrapperKeys == {"documentation_plan", "plan"}

(* The values V: plain objects, and objects that hold a wrapper key themselves *)
PlanValues ==
    PlainObjects
       \cup {Obj1(k, Outline(<<SecOverview, SecApi>>)) : k \in WrapperKeys}
       \cup {Obj1(k, Obj1("extra", JNull)) : k \in WrapperKeys}
       \cup {Obj1(k, JNum(5)) : k \in WrapperKeys}
       \cup {Obj2(k, Outline(<<SecOverview>>), "title", JStr(TitleGuide)) : k \in WrapperKeys}
       \cup {Obj3(k, JNull, "title", JStr(TitleGuide), "sections", JArr(<<SecApi>>)) :
                k \in WrapperKeys}

WrapInit ==
    /\ apc = "value"
    /\ value \in PlanValues
    /\ wrap_key \in WrapperKeys
    /\ plan_bare = NoPlan
    /\ plan_wrapped = NoPlan

(* Lines 481-552 on V and on {k: V}. *)
NormalizeBoth ==
    /\ apc = "value"
    /\ plan_bare' = CreatePlan(value, ProjectName)
    /\ plan_wrapped' = CreatePlan(Obj1(wrap_key, value), ProjectName)
    /\ apc' = "planned"
    /\ UNCHANGED <<gvars, pvars, paced, raw, body, plan_cleaned, targets_cleaned,
                   test_cleaned, recleaned, value, wrap_key, content_lines, code_blocks,
                   section_content, tvars>>

WrapNext == NormalizeBoth

----------------------------------------------------------------------------
(* create_documentation_plan from the response text to the plan: lines 463-552 *)

TitleX == <<"X">>
TitleT == <<"T">>
TitlePT == <<"P", "T">>

(* The text {"plan": {"title": "X", "sections": []}} *)
PlanWrappedText ==
    <<"{", "\"", "p", "l", "a", "n", "\"", ":", " ", "{", "\"", "t", "i", "t", "l",
      "e", "\"", ":", " ", "\"", "X", "\"", ",", " ", "\"", "s", "e", "c", "t", "i",
      "o", "n", "s", "\"", ":", " ", "[", "]", "}", "}">>

(* The text {"title": "X", "sections": []} *)
PlanBareText ==
    <<"{", "\"", "t", "i", "t", "l", "e", "\"", ":", " ", "\"", "X", "\"", ",", " ",
      "\"", "s", "e", "c", "t", "i", "o", "n", "s", "\"", ":", " ", "[", "]", "}">>

(* Line 483: json.loads on the cleaned texts of RepairInit; every other one of
   them (a text still carrying a fence) is not JSON. *)
JsonLoads(text) ==
    IF text = PlanWrappedText
    THEN Obj1("plan", Obj2("title", JStr(TitleX), "sections", JArr(<< >>)))
    ELSE IF text = PlanBareText
    THEN Obj2("title", JStr(TitleX), "sections", JArr(<< >>))
    ELSE Unparseable

RepairKeys ==
    {"documentation_plan", "plan", "title", "planTitle", "project_name", "sections",
     "documentationSections", "chapters", "content_sections", "documentation_sections",
     "extra"}

(* What each key holds in the objects of RepairValues: every synonym its own value *)
RepairEntry(k) ==
    CASE k = "documentation_plan" -> Obj1("plan", Outline(<<SecOverview>>))
      [] k = "plan" ->
            JObj([x \in {"planTitle", "chapters", "content_sections"} |->
                     IF x = "planTitle" THEN JStr(TitlePT)
                     ELSE IF x = "chapters" THEN JArr(<<SecApi>>)
                     ELSE JArr(<<SecOverview, SecApi>>)])
      [] k = "title" -> JStr(TitleT)
      [] k = "planTitle" -> JStr(TitlePT)
      [] k = "project_name" -> JStr(ProjectName)
      [] k = "sections" -> JArr(<<SecOverview>>)
      [] k = "documentationSections" -> JArr(<<SecInstallation>>)
      [] k = "chapters" -> JArr(<<SecArchitecture, SecApi>>)
      [] k = "content_sections" -> JArr(<<SecApi>>)
      [] k = "documentation_sections" -> JArr(<< >>)
      [] k = "extra" -> JNull

(* Parsed objects: every set of keys, and wrappers around further contents *)
RepairValues ==
    {JObj([k \in K |-> RepairEntry(k)]) : K \in SUBSET RepairKeys}
       \cup {Obj1(k, Outline(<<SecApi, SecOverview>>)) : k \in WrapperKeys}
       \cup {Obj1(k, Obj1("project_name", JStr(ProjectName))) : k \in WrapperKeys}
       \cup {Obj1(k, JNum(5)) : k \in WrapperKeys}

RepairInit ==
    /\ \/ /\ apc = "value"
          /\ value \in RepairValues
          /\ raw = << >>
          /\ body = NoBody
       \/ /\ apc = "response"
          /\ value = JNull
          /\ \E J \in {PlanWrappedText, PlanBareText} :
                \/ \E lead \in LeadingBlanks, tag \in LanguageTags, trail \in TrailingBlanks :
                      /\ body = [kind |-> "fenced", text |-> J]
                      /\ raw = Fenced(lead, tag, J, trail)
                \/ \E lead \in LeadingBlanks, trail \in TrailingBlanks :
                      /\ body = [kind |-> "bare", text |-> J]
                      /\ raw = lead \o J \o trail
                \/ /\ body = [kind |-> "open", text |-> J]
                   /\ raw = Fence \o J
    /\ plan_cleaned = << >>
    /\ targets_cleaned = << >>
    /\ test_cleaned = << >>
    /\ recleaned = << >>
    /\ wrap_key = "plan"
    /\ plan_bare = NoPlan
    /\ plan_wrapped = NoPlan

(* Lines 463-483: the cleanup and json.loads. *)
LoadResponse ==
    /\ apc = "response"
    /\ plan_cleaned' = CleanPlanResponse(raw)
    /\ value' = JsonLoads(CleanPlanResponse(raw))
    /\ apc' = "value"
    /\ UNCHANGED <<gvars, pvars, paced, raw, body, targets_cleaned, test_cleaned,
                   recleaned, wrap_key, plan_bare, plan_wrapped, content_lines,
                   code_blocks, section_content, tvars>>

(* Lines 484-552: the repairs, the validation and the plan. *)
RepairShape ==
    /\ apc = "value"
    /\ plan_bare' = CreatePlan(value, ProjectName)
    /\ apc' = "planned"
    /\ UNCHANGED <<gvars, pvars, paced, raw, body, plan_cleaned, targets_cleaned,
                   test_cleaned, recleaned, value, wrap_key, plan_wrapped, content_lines,
                   code_blocks, section_content, tvars>>

RepairNext == LoadResponse \/ RepairShape

----------------------------------------------------------------------------
(* Section count tiering of create_documentation_plan: lines 391-404 *)

Max(a, b) == IF a >= b THEN a ELSE b

(* Line 391: len(context[:100000]) *)
ContextSize(n) == Min(n, ContextLimit)

(* Line 395 *)
IsSmallProject(n) == ContextSize(n) < SmallProjectThreshold

(* Lines 397-398 and 402-403 *)
ActualMinSections(n, lo, hi) == IF IsSmallProject(n) THEN Max(5, lo - 4) ELSE lo
ActualMaxSections(n, lo, hi) == IF IsSmallProject(n) THEN Max(9, hi - 6) ELSE hi

(* Lengths of the context around the threshold and the truncation *)
ContextLengths ==
    {0, SmallProjectThreshold - 1, SmallProjectThreshold, ContextLimit - 1, ContextLimit,
     ContextLimit + SmallProjectThreshold}

TierIdle ==
    /\ min_sections = 9
    /\ max_sections = 15
    /\ context_len = 0
    /\ actual_min_sections = 0
    /\ actual_max_sections = 0

(* MIN_SECTIONS and MAX_SECTIONS (lines 1535-1536) are any integers of the
   environment; the context is what load_context returned. *)
TierInit ==
    /\ apc = "context"
    /\ min_sections \in 1..MaxSectionCount
    /\ max_sections \in 1..MaxSectionCount
    /\ context_len \in ContextLengths
    /\ actual_min_sections = 0
    /\ actual_max_sections = 0

(* Lines 391-404 *)
SelectSectionRange ==
    /\ apc = "context"
    /\ actual_min_sections' = ActualMinSections(context_len, min_sections, max_sections)
    /\ actual_max_sections' = ActualMaxSections(context_len, min_sections, max_sections)
    /\ apc' = "ranged"
    /\ UNCHANGED <<gvars, pvars, paced, raw, body, plan_cleaned, targets_cleaned,
                   test_cleaned, recleaned, value, wrap_key, plan_bare, plan_wrapped,
                   content_lines, code_blocks, section_content, min_sections,
                   max_sections, context_len>>

TierNext == SelectSectionRange

----------------------------------------------------------------------------
(* generate_section_content (lines 591-596) and _extract_code_blocks (lines 598-622) *)

CodeBlockStart ==
    <<"C", "O", "D", "E", "_", "B", "L", "O", "C", "K", "_", "S", "T", "A", "R", "T">>
CodeBlockEnd == <<"C", "O", "D", "E", "_", "B", "L", "O", "C", "K", "_", "E", "N", "D">>

(* content.split('\n') *)
RECURSIVE Split(_)
Split(text) ==
    LET nl == Find(text, "\n")
    IN IF nl = -1 THEN <<text>> ELSE <<UpTo(text, nl)>> \o Split(From(text, nl + 1))

(* '\n'.join(lines) *)
RECURSIVE JoinLines(_)
JoinLines(lines) ==
    IF lines = << >> THEN << >>
    ELSE IF Len(lines) = 1 THEN lines[1]
    ELSE lines[1] \o <<"\n">> \o JoinLines(Tail(lines))

(* Line 607: the test of the first branch *)
OpensBlock(line) == Contains(line, CodeBlockStart) \/ StartsWith(Strip(line), Fence)

(* Line 613: the test of the elif branch *)
ClosesBlock(line, in_block) ==
    Contains(line, CodeBlockEnd) \/ (in_block /\ Strip(line) = Fence)

(* Lines 606-620: the loop over the lines from position i on *)
RECURSIVE ExtractFrom(_, _, _, _, _)
ExtractFrom(lines, i, in_block, current_block, blocks) ==
    IF i > Len(lines) THEN blocks
    ELSE LET line == lines[i] IN
         IF OpensBlock(line)
         THEN ExtractFrom(lines, i + 1, TRUE, current_block, blocks)
         ELSE IF ClosesBlock(line, in_block)
         THEN ExtractFrom(lines, i + 1, FALSE, << >>,
                          IF current_block # << >>
                          THEN Append(blocks, JoinLines(current_block))
                          ELSE blocks)
         ELSE IF in_block
         THEN ExtractFrom(lines, i + 1, in_block, Append(current_block, line), blocks)
         ELSE ExtractFrom(lines, i + 1, in_block, current_block, blocks)

(* Lines 598-622 *)
ExtractCodeBlocks(content) == ExtractFrom(Split(content), 1, FALSE, << >>, << >>)

(* The lines a content text is made of *)
LineFence == Fence
LineFenceTag == Fence \o <<"p", "y">>
LineCode == <<"x">>
LineIndented == <<" ", "y">>
LineKinds == {LineFence, LineFenceTag, CodeBlockStart, CodeBlockEnd, LineCode, LineIndented}

ExtractInit ==
    /\ apc = "content"
    /\ content_lines \in SeqsUpTo(LineKinds, MaxLines)
    /\ raw = JoinLines(content_lines)
    /\ body = NoBody
    /\ plan_cleaned = << >>
    /\ targets_cleaned = << >>
    /\ test_cleaned = << >>
    /\ recleaned = << >>
    /\ code_blocks = << >>
    /\ section_content = << >>

(* Lines 591-596 and line 1661: the content call has returned raw. *)
StoreSectionContent ==
    /\ apc = "content"
    /\ code_blocks' = ExtractCodeBlocks(raw)
    /\ section_content' = raw
    /\ apc' = "extracted"
    /\ UNCHANGED <<gvars, pvars, paced, raw, body, plan_cleaned, targets_cleaned,
                   test_cleaned, recleaned, value, wrap_key, plan_bare, plan_wrapped,
                   content_lines, tvars>>

ExtractNext == StoreSectionContent

----------------------------------------------------------------------------
(* A run of main() with the governor behind each of its calls *)

(* A configuration whose delays differ by request type (lines 187-190) *)
DistinctDelays == [plan |-> 4, section |-> 2, screenshot |-> 3, diagram |-> 6]

RunResponses ==
    {Outline(<<SecArchitecture>>), Outline(<<SecOverview, SecArchitecture>>), Unparseable}

RunGaps == {0, 30}
RunTexts == {<<"o", "k">>}
RunErrs == {Msg429, MsgRateDashLimit}

(* The _make_request call the pipeline is about to make: lines 456, 591, 657, 977 *)
PendingCall ==
    IF phase = "planning" THEN [type |-> "plan", delay |-> FALSE]
    ELSE IF phase = "writing" /\ sub = "content" /\ idx <= Len(sections)
    THEN [type |-> "section", delay |-> TRUE]
    ELSE IF phase = "writing" /\ sub = "targets"
    THEN [type |-> "screenshot", delay |-> TRUE]
    ELSE IF /\ phase = "diagrams"
            /\ cidx <= Len(diagram_candidates)
            /\ ~DiagramLimitReached(mermaid_count, max_mermaid_diagrams)
    THEN [type |-> "diagram", delay |-> TRUE]
    ELSE [type |-> "none", delay |-> TRUE]

(* No call of the pipeline is inside _make_request *)
GovernorAtRest == gpc = "idle" /\ calls = Len(govCalls)

(* The last call has left _make_request and the pipeline has not resumed yet *)
GovernorDone == gpc = "idle" /\ calls = Len(govCalls) + 1

(* The pipeline enters _make_request: lines 285-301. *)
IssueRequest(gap) ==
    /\ status = -1
    /\ GovernorAtRest
    /\ PendingCall.type # "none"
    /\ MakeRequestBody(PendingCall.type, PendingCall.delay, gap)
    /\ paced' = [call |-> calls + 1, type |-> PendingCall.type,
                 delay |-> PendingCall.delay, start |-> now + gap,
                 slept |-> IF PendingCall.delay THEN DelayTime(PendingCall.type) ELSE 0,
                 admitted_at |-> now']
    /\ UNCHANGED <<pvars, apc, raw, body, plan_cleaned, targets_cleaned, test_cleaned,
                   recleaned, value, wrap_key, plan_bare, plan_wrapped, content_lines,
                   code_blocks, section_content, tvars>>

(* The calls of the pipeline resume with what _make_request gave them. *)
PlanReturns ==
    /\ GovernorDone
    /\ CreateDocumentationPlan(outcome.kind = "returned")

ContentReturns ==
    /\ GovernorDone
    /\ GenerateSectionContent(outcome.kind = "returned")

TargetsReturn(result) ==
    /\ GovernorDone
    /\ (result = "raised") <=> (outcome.kind = "raised")
    /\ IdentifyScreenshotTargets(result)

DiagramReturns(result, rendered) ==
    /\ GovernorDone
    /\ (result = "raised") <=> (outcome.kind = "raised")
    /\ GenerateDiagram(result, rendered)

RunNext ==
    \/ \E g \in RunGaps : IssueRequest(g)
    \/ \E text \in RunTexts : AttemptSucceeds(text)
    \/ \E e \in RunErrs : AttemptFails(e)
    \/ RaiseAfterLoop
    \/ PlanReturns
    \/ ContentReturns
    \/ \E r \in {"raised", "not_iterable", "unparseable", "list"} : TargetsReturn(r)
    \/ \E t \in TargetTypes, ok \in BOOLEAN : CaptureTarget(t, ok)
    \/ EndTargets
    \/ \E r \in {"raised", "empty", "code"}, ok \in BOOLEAN : DiagramReturns(r, ok)
    \/ DiagramLoopExit
    \/ \E ok \in BOOLEAN : CaptureLiveUrl(ok)
    \/ Assemble

----------------------------------------------------------------------------
(* Specifications *)

GovIdle ==
    /\ now = 0
    /\ request_timestamps = << >>
    /\ max_requests_per_minute = 15
    /\ max_retries = 3
    /\ type_delays = DefaultDelays
    /\ gpc = "idle"
    /\ retry_attempt = 0
    /\ last_exception = None
    /\ outcome = [kind |-> "none", value |-> None]
    /\ calls = 0
    /\ admitted = << >>
    /\ invocations = << >>
    /\ callInvocations = 0
    /\ lastBackoff = NoBackoff
    /\ nBackoffs = 0
    /\ svcText = None
    /\ waited = 0

PipeIdle ==
    /\ response = Unparseable
    /\ project_name = ProjectName
    /\ max_screenshots = 8
    /\ max_mermaid_diagrams = 3
    /\ enable_screenshots = TRUE
    /\ enable_mermaid = TRUE
    /\ live_urls = 0
    /\ planResult = [kind |-> "none"]
    /\ phase = "planning"
    /\ sub = "content"
    /\ idx = 0
    /\ j = 0
    /\ to_capture = 0
    /\ sections = << >>
    /\ screenshot_count = 0
    /\ mermaid_count = 0
    /\ live_idx = 0
    /\ diagram_candidates = << >>
    /\ cidx = 1
    /\ status = -1
    /\ assembled = << >>
    /\ govCalls = << >>
    /\ failure = NoFailure

PacingIdle == paced = NoPacing

FenceIdle ==
    /\ raw = << >>
    /\ body = NoBody
    /\ plan_cleaned = << >>
    /\ targets_cleaned = << >>
    /\ test_cleaned = << >>
    /\ recleaned = << >>

WrapIdle ==
    /\ value = JNull
    /\ wrap_key = "plan"
    /\ plan_bare = NoPlan
    /\ plan_wrapped = NoPlan

ExtractIdle ==
    /\ content_lines = << >>
    /\ code_blocks = << >>
    /\ section_content = << >>

AuxIdle ==
    /\ apc = "idle"
    /\ TierIdle
    /\ PacingIdle
    /\ FenceIdle
    /\ WrapIdle
    /\ ExtractIdle

(* The governor under an arbitrary sequence of _make_request calls *)
GovernorInit == GovInit /\ PipeIdle /\ AuxIdle
SpecGovernor == GovernorInit /\ [][GovNext]_vars

(* The fence cleanup on a response text *)
SpecFenceInit == GovIdle /\ PipeIdle /\ TierIdle /\ PacingIdle /\ WrapIdle /\ ExtractIdle /\ FenceInit
SpecFence == SpecFenceInit /\ [][FenceNext]_vars

(* The planner on a value, bare and wrapped *)
SpecWrapInit == GovIdle /\ PipeIdle /\ TierIdle /\ PacingIdle /\ FenceIdle /\ ExtractIdle /\ WrapInit
SpecWrap == SpecWrapInit /\ [][WrapNext]_vars

(* The planner from the response text to the plan *)
SpecRepairInit == GovIdle /\ PipeIdle /\ TierIdle /\ PacingIdle /\ ExtractIdle /\ RepairInit
SpecRepair == SpecRepairInit /\ [][RepairNext]_vars

(* The section range requested for a context *)
SpecTierInit ==
    GovIdle /\ PipeIdle /\ PacingIdle /\ FenceIdle /\ WrapIdle /\ ExtractIdle /\ TierInit
SpecTier == SpecTierInit /\ [][TierNext]_vars

(* The code blocks of a returned content text *)
SpecExtractInit == GovIdle /\ PipeIdle /\ TierIdle /\ PacingIdle /\ WrapIdle /\ ExtractInit
SpecExtract == SpecExtractInit /\ [][ExtractNext]_vars

(* One run of main() with every call of it governed *)
RunInit ==
    /\ now = 0
    /\ request_timestamps = << >>
    /\ max_requests_per_minute \in 0..MaxCap
    /\ max_retries \in {0, 2}
    /\ type_delays \in {DefaultDelays, DistinctDelays}
    /\ gpc = "idle"
    /\ retry_attempt = 0
    /\ last_exception = None
    /\ outcome = [kind |-> "none", value |-> None]
    /\ calls = 0
    /\ admitted = << >>
    /\ invocations = << >>
    /\ callInvocations = 0
    /\ lastBackoff = NoBackoff
    /\ nBackoffs = 0
    /\ svcText = None
    /\ waited = 0
    /\ PipeInit
    /\ response \in RunResponses
    /\ max_screenshots = 1
    /\ max_mermaid_diagrams = 1
    /\ enable_screenshots
    /\ enable_mermaid
    /\ live_urls = MaxLiveUrls
    /\ AuxIdle
SpecRun == RunInit /\ [][RunNext]_vars

(* The same run when every call, sleep, capture and render returns: a step that
   can be taken is eventually taken *)
(* The step PlanReturns takes, told apart by its guard and its entry in the call
   log: in the planning phase no other step of RunNext appends to govCalls, and
   PlanReturns can be taken whenever its guard holds *)
PlanResumes ==
    /\ GovernorDone
    /\ phase = "planning"
    /\ govCalls' = Append(govCalls, [type |-> "plan", delay |-> FALSE, section |-> 0])

(* The steps of RunNext other than PlanReturns *)
RunOtherSteps ==
    \/ \E g \in RunGaps : IssueRequest(g)
    \/ \E text \in RunTexts : AttemptSucceeds(text)
    \/ \E e \in RunErrs : AttemptFails(e)
    \/ RaiseAfterLoop
    \/ ContentReturns
    \/ \E r \in {"raised", "not_iterable", "unparseable", "list"} : TargetsReturn(r)
    \/ \E t \in TargetTypes, ok \in BOOLEAN : CaptureTarget(t, ok)
    \/ EndTargets
    \/ \E r \in {"raised", "empty", "code"}, ok \in BOOLEAN : DiagramReturns(r, ok)
    \/ DiagramLoopExit
    \/ \E ok \in BOOLEAN : CaptureLiveUrl(ok)
    \/ Assemble

SpecRunFair ==
    /\ RunInit
    /\ [][RunNext]_vars
    /\ WF_vars(RunOtherSteps)
    /\ WF_govCalls(PlanResumes)

(* One run of main() *)
Init == GovIdle /\ PipeInit /\ AuxIdle
Next == PipeNext
Spec == Init /\ [][Next]_vars

----------------------------------------------------------------------------
(* Properties of the governor *)

InTrailingWindow(log) == {i \in 1..Len(log) : now - log[i] < 60}

JustAdmitted == gpc = "attempt" /\ callInvocations = 0

\* C1: with a per-minute cap >= 1, the admitted timestamps that fall within the
\* trailing 60 seconds never number more than the cap; the tracked window never
\* holds more than cap timestamps, and right after an admission check has
\* appended its timestamp none of the tracked timestamps is 60 seconds old or older.
SlidingWindowInvariant ==
    max_requests_per_minute >= 1 =>
       /\ Cardinality(InTrailingWindow(admitted)) <= max_requests_per_minute
       /\ Len(request_timestamps) <= max_requests_per_minute
       /\ JustAdmitted =>
             /\ \A i \in 1..Len(request_timestamps) : now - request_timestamps[i] < 60
             /\ request_timestamps[Len(request_timestamps)] = now

SlidingWindowWitness ==
    /\ max_requests_per_minute = 2
    /\ JustAdmitted
    /\ waited > 0
    /\ Len(request_timestamps) = 2

\* C2: the generate_content invocations (first attempts and retries alike) that
\* fall within the trailing 60 seconds never number more than the per-minute cap.
HardCapOnInvocations ==
    max_requests_per_minute >= 1 =>
       Cardinality(InTrailingWindow(invocations)) <= max_requests_per_minute

\* C5: with max_retries >= 1 one call invokes the service at most max_retries
\* times; while the call is in its loop every failure so far was followed by one
\* backoff sleep and nothing has reached the caller; a success returns the
\* service's text unmodified after exactly one more invocation than there were
\* backoffs; exhaustion raises the final attempt's exception after max_retries
\* invocations and max_retries - 1 sleeps, the clock still at the final invocation.
AttemptBudget ==
    (max_retries >= 1 /\ max_requests_per_minute >= 1) =>
       /\ callInvocations <= max_retries
       /\ gpc = "attempt" =>
             /\ outcome.kind = "pending"
             /\ callInvocations = retry_attempt
             /\ nBackoffs = callInvocations
       /\ outcome.kind = "returned" =>
             /\ outcome.value = svcText
             /\ callInvocations = nBackoffs + 1
       /\ outcome.kind = "raised" =>
             /\ callInvocations = max_retries
             /\ nBackoffs = max_retries - 1
             /\ outcome.value = last_exception
             /\ outcome.value \in ErrMsgs
             /\ invocations # << >>
             /\ invocations[Len(invocations)] = now

AttemptBudgetWitness ==
    /\ max_retries = 3
    /\ outcome.kind = "raised"
    /\ callInvocations = 3
    /\ nBackoffs = 2
    /\ outcome.value = MsgQuota

RateLimitLike == {Msg429, MsgQuota, MsgRateLimit}

ExpectedBackoff(b) ==
    IF b.error \in RateLimitLike
    THEN base_backoff_delay * (2 ^ b.attempt)
    ELSE base_backoff_delay

\* C6: the sleep after failed attempt i that is not the final attempt is
\* base_backoff * 2^i when the error is rate-limit-like and base_backoff
\* otherwise; when attempts i and i+1 of a call are both rate-limit-like the
\* second sleep is twice the first.
BackoffRule ==
    /\ [](lastBackoff.attempt >= 0 =>
            /\ lastBackoff.delay = ExpectedBackoff(lastBackoff)
            /\ lastBackoff.attempt < max_retries - 1)
    /\ [][(/\ lastBackoff.attempt >= 0
            /\ lastBackoff'.attempt = lastBackoff.attempt + 1
            /\ lastBackoff.error \in RateLimitLike
            /\ lastBackoff'.error \in RateLimitLike)
           => lastBackoff'.delay = 2 * lastBackoff.delay]_vars

BackoffRuleWitness ==
    /\ lastBackoff.attempt = 1
    /\ lastBackoff.error = MsgQuota
    /\ lastBackoff.delay = 10
    /\ nBackoffs = 2

----------------------------------------------------------------------------
(* Properties of the pipeline *)

Resolved(items) == {i \in 1..Len(items) : items[i].path # EmptyText}

RECURSIVE TotalResolvedImages(_)
TotalResolvedImages(secs) ==
    IF secs = << >> THEN 0
    ELSE Cardinality(Resolved(secs[1].images)) + TotalResolvedImages(Tail(secs))

RECURSIVE TotalResolvedDiagrams(_)
TotalResolvedDiagrams(secs) ==
    IF secs = << >> THEN 0
    ELSE Cardinality(Resolved(secs[1].mermaid_diagrams))
            + TotalResolvedDiagrams(Tail(secs))

RECURSIVE TotalScreenshots(_)
TotalScreenshots(secs) ==
    IF secs = << >> THEN 0
    ELSE Cardinality({i \in 1..Len(secs[1].images) :
                         secs[1].images[i].path \in {ShotPath, TreePath}})
            + TotalScreenshots(Tail(secs))

\* C3: both counters stay between 0 and their caps, never decrease, and a counter
\* grows only by one and only in a step that resolves one more artifact path (a
\* failed capture, diagram generation or render leaves it unchanged).
ResourceCountersBounded ==
    /\ [](/\ 0 <= screenshot_count /\ screenshot_count <= max_screenshots
          /\ 0 <= mermaid_count /\ mermaid_count <= max_mermaid_diagrams)
    /\ [][/\ screenshot_count' >= screenshot_count
          /\ mermaid_count' >= mermaid_count
          /\ screenshot_count' # screenshot_count =>
                /\ screenshot_count' = screenshot_count + 1
                /\ TotalScreenshots(sections') = TotalScreenshots(sections) + 1
          /\ mermaid_count' # mermaid_count =>
                /\ mermaid_count' = mermaid_count + 1
                /\ TotalResolvedDiagrams(sections') = TotalResolvedDiagrams(sections) + 1
          /\ TotalScreenshots(sections') = TotalScreenshots(sections) =>
                screenshot_count' = screenshot_count
          /\ TotalResolvedDiagrams(sections') = TotalResolvedDiagrams(sections) =>
                mermaid_count' = mermaid_count]_vars

ResourceCountersWitness ==
    /\ phase = "done"
    /\ max_screenshots = 2 /\ screenshot_count = 2
    /\ max_mermaid_diagrams = 1 /\ mermaid_count = 1
    /\ Len(diagram_candidates) = 2

\* C4 as stated: at assembly the images entries with a resolved path number at
\* most the screenshot cap, and the mermaid_diagrams entries with a resolved path
\* at most the diagram cap.
BudgetCeilingOnImages ==
    phase = "done" =>
       /\ TotalResolvedImages(assembled) <= max_screenshots
       /\ TotalResolvedDiagrams(assembled) <= max_mermaid_diagrams

\* C4 amended: at assembly the images entries resolved by screenshot allocation
\* number at most the screenshot cap; all images entries with a resolved path
\* number at most screenshot cap + diagram cap + live URLs (rendered diagrams are
\* prepended to images, live captures appended); the mermaid_diagrams entries
\* with a resolved path number at most the diagram cap.
BudgetCeilingAmended ==
    phase = "done" =>
       /\ TotalScreenshots(assembled) <= max_screenshots
       /\ TotalResolvedImages(assembled)
             <= max_screenshots + max_mermaid_diagrams + live_urls
       /\ TotalScreenshots(assembled) = screenshot_count
       /\ TotalResolvedDiagrams(assembled) = mermaid_count
       /\ TotalResolvedDiagrams(assembled) <= max_mermaid_diagrams

BudgetCeilingWitness ==
    /\ phase = "done"
    /\ max_screenshots = 2 /\ max_mermaid_diagrams = 1 /\ live_urls = 1
    /\ TotalResolvedImages(assembled) = 4
    /\ TotalResolvedDiagrams(assembled) = 1

\* C7: for every response text the governor returns, create_documentation_plan
\* raises nothing and returns a plan.
PlannerNeverRaises ==
    ~(failure.call = "plan" /\ failure.cause = "structure")

TitleSynonyms == {"title", "planTitle", "project_name"}
SectionsSynonyms == {"sections", "documentationSections", "chapters", "content_sections",
                     "documentation_sections"}

Unwrapped(v) ==
    IF v.t = "obj" /\ DOMAIN v.o \in {{"documentation_plan"}, {"plan"}}
    THEN v.o[CHOOSE k \in DOMAIN v.o : TRUE]
    ELSE v

NormalizationFails(v) ==
    \/ v = Unparseable
    \/ /\ Unwrapped(v).t = "obj"
       /\ \/ DOMAIN Unwrapped(v).o \cap TitleSynonyms = {}
          \/ DOMAIN Unwrapped(v).o \cap SectionsSynonyms = {}

IsFallbackSection(s, title) ==
    /\ s.title = JStr(title)
    /\ s.level = JNum(1)
    /\ s.content = EmptyText

\* C8: whenever normalization of the planning response fails (decode error, or a
\* required key missing after the repairs) the plan returned is the fallback:
\* 'Overview', 'Installation', 'Usage' in that order, each at level 1 with empty
\* content, titled '<project_name> Documentation'; and the run goes on to
\* WRITING with these three sections.
FallbackGuarantee ==
    /\ (planResult.kind # "none" /\ NormalizationFails(response)) =>
          (planResult.kind = "plan" /\ planResult.fallback)
    /\ (planResult.kind = "plan" /\ planResult.fallback) =>
          /\ NormalizationFails(response)
          /\ planResult.title = JStr(project_name \o
                <<" ", "D", "o", "c", "u", "m", "e", "n", "t", "a", "t", "i", "o", "n">>)
          /\ Len(planResult.sections) = 3
          /\ IsFallbackSection(planResult.sections[1],
                               <<"O", "v", "e", "r", "v", "i", "e", "w">>)
          /\ IsFallbackSection(planResult.sections[2],
                <<"I", "n", "s", "t", "a", "l", "l", "a", "t", "i", "o", "n">>)
          /\ IsFallbackSection(planResult.sections[3], <<"U", "s", "a", "g", "e">>)
          /\ Len(sections) = 3
          /\ \A i \in 1..3 : sections[i].title = planResult.sections[i].title
          /\ Len(govCalls) = 1 => (phase = "writing" /\ idx = 1 /\ sub = "content")

FallbackGuaranteeWitness ==
    /\ response = Obj1("extra", JNull)
    /\ planResult.kind = "plan" /\ planResult.fallback
    /\ phase = "done"
    /\ Len(assembled) = 3

ContentCalls == {i \in 1..Len(govCalls) : govCalls[i].type = "section"}
DiagramCalls == {i \in 1..Len(govCalls) : govCalls[i].type = "diagram"}

ContentFailed == failure.call = "section" /\ failure.cause = "governor"

\* C9: when the governor's failure leaves the content call of section k, no
\* content call is made for a later section, the diagram phase is never entered,
\* the assembler is never invoked, main returns non-zero, and what sections
\* 1..k-1 already hold (content, resolved paths) stays as it was.
FatalFailureAborts ==
    /\ [](ContentFailed =>
            /\ phase = "aborted"
            /\ status = 1
            /\ assembled = << >>
            /\ DiagramCalls = {}
            /\ diagram_candidates = << >>
            /\ mermaid_count = 0
            /\ \A i \in ContentCalls : govCalls[i].section <= failure.section
            /\ govCalls[Len(govCalls)] =
                  [type |-> "section", delay |-> TRUE, section |-> failure.section]
            /\ \A i \in 1..Len(sections) :
                  sections[i].content = IF i < failure.section THEN ContentText
                                        ELSE EmptyText
            /\ TotalScreenshots(sections) = screenshot_count)
    /\ [][(ContentFailed' /\ ~ContentFailed) =>
             (sections' = sections /\ screenshot_count' = screenshot_count)]_vars
    /\ [][~ContentFailed]_vars

FatalFailureWitness ==
    /\ ContentFailed
    /\ failure.section = 2
    /\ sections[1].content = ContentText
    /\ screenshot_count = 2
    /\ sections[1].images[2].path = TreePath

\* C10: a governor failure during the planning call, a screenshot-targeting call
\* or a diagram call never aborts the run; only content-generation failures
\* reach the top-level run.
AncillaryFailuresContained ==
    ~(/\ phase = "aborted"
      /\ failure.cause = "governor"
      /\ failure.call \in {"plan", "screenshot", "diagram"})

ScreenshotCalls == {i \in 1..Len(govCalls) : govCalls[i].type = "screenshot"}

\* The last section holding a path resolved by screenshot allocation, 0 without one.
LastScreenshotSection(secs) ==
    LET S == {i \in 1..Len(secs) :
                 \E k \in 1..Len(secs[i].images) :
                     secs[i].images[k].path \in {ShotPath, TreePath}}
    IN IF S = {} THEN 0 ELSE CHOOSE i \in S : \A k \in S : k <= i

\* C11 as stated: once screenshot_count equals the screenshot cap no
\* screenshot-targeting call is issued and no media path (images entry) is
\* resolved for any later section; once mermaid_count equals the diagram cap no
\* diagram call is issued.
HardCeilingOnMediaPaths ==
    [][/\ screenshot_count = max_screenshots =>
             /\ ScreenshotCalls' = ScreenshotCalls
             /\ \A i \in 1..Len(sections) :
                   i > LastScreenshotSection(sections) =>
                      Cardinality(Resolved(sections'[i].images))
                         = Cardinality(Resolved(sections[i].images))
       /\ mermaid_count = max_mermaid_diagrams => DiagramCalls' = DiagramCalls]_vars

\* C11 amended: once screenshot_count equals the screenshot cap no
\* screenshot-targeting call is issued and screenshot allocation resolves no
\* further path in any section (diagram allocation and live-application capture
\* may still add resolved entries to images); once mermaid_count equals the
\* diagram cap the diagram loop is left at once, with no diagram call and no
\* diagram resolved for the remaining candidates; a cap of 0 issues no call of
\* its stream.
CapsAreHardCeilings ==
    /\ [][/\ screenshot_count = max_screenshots =>
                /\ ScreenshotCalls' = ScreenshotCalls
                /\ TotalScreenshots(sections') = TotalScreenshots(sections)
                /\ screenshot_count' = screenshot_count
          /\ mermaid_count = max_mermaid_diagrams =>
                /\ DiagramCalls' = DiagramCalls
                /\ TotalResolvedDiagrams(sections') = TotalResolvedDiagrams(sections)
                /\ mermaid_count' = mermaid_count
                /\ phase = "diagrams" => (phase' = "live" /\ cidx' = cidx)]_vars
    /\ [](max_screenshots = 0 => ScreenshotCalls = {})
    /\ [](max_mermaid_diagrams = 0 => DiagramCalls = {})

CapsAreHardCeilingsWitness ==
    /\ phase = "done"
    /\ max_screenshots = 1 /\ screenshot_count = 1
    /\ Len(sections) = 2
    /\ \A i \in 1..2 : ShouldCaptureScreenshot(sections[i]) /\ Len(sections[i].images) >= 1
    /\ Cardinality(ScreenshotCalls) = 1
    /\ Resolved(sections[2].images) = {}
    /\ max_mermaid_diagrams = 1 /\ mermaid_count = 1
    /\ Len(diagram_candidates) = 2 /\ cidx = 2
    /\ Cardinality(DiagramCalls) = 1

PhaseRank(p) ==
    CASE p = "planning" -> 0
      [] p = "writing" -> 1
      [] p = "diagrams" -> 2
      [] p = "live" -> 3
      [] p = "done" -> 4
      [] p = "aborted" -> 5

HasContent(secs) == {i \in 1..Len(secs) : secs[i].content # EmptyText}

\* C12: the phases of a run follow one another in the order planning, writing
\* (with the section's media allocation), diagram allocation, assembly, never
\* going back; the single plan call comes before every content call; every
\* section's content is set once, in outline order; no diagram call is issued
\* before the last section has content; sections reach the assembler only after
\* diagram allocation has ended.
PhaseOrdering ==
    /\ [][PhaseRank(phase') >= PhaseRank(phase)]_vars
    /\ [](govCalls # << >> =>
            /\ govCalls[1].type = "plan"
            /\ \A i \in 2..Len(govCalls) : govCalls[i].type # "plan")
    /\ [](\A i \in ContentCalls :
             govCalls[i].section = Cardinality({k \in ContentCalls : k <= i}))
    /\ [](HasContent(sections) = 1..Cardinality(HasContent(sections)))
    /\ [][\A i \in 1..Len(sections) :
             sections'[i].content # sections[i].content =>
                /\ sections[i].content = EmptyText
                /\ phase = "writing" /\ i = idx
                /\ Cardinality(ContentCalls') = i]_vars
    /\ [](\A i \in DiagramCalls :
             /\ HasContent(sections) = 1..Len(sections)
             /\ Cardinality(ContentCalls) = Len(sections)
             /\ \A k \in ContentCalls : k < i)
    /\ [](phase \in {"diagrams", "live", "done"} =>
             /\ HasContent(sections) = 1..Len(sections)
             /\ Cardinality(ContentCalls) = Len(sections))
    /\ [](phase \in {"planning", "writing", "diagrams"} => assembled = << >>)
    /\ [][assembled' # assembled =>
             (phase = "live" /\ phase' = "done" /\ assembled' = sections
                /\ govCalls' = govCalls)]_vars
    /\ [][phase = "done" => UNCHANGED vars]_vars

PhaseOrderingWitness ==
    /\ phase = "done"
    /\ Len(assembled) = 2
    /\ Cardinality(ContentCalls) = 2
    /\ Cardinality(ScreenshotCalls) = 1
    /\ Cardinality(DiagramCalls) = 2
    /\ mermaid_count = 1

\* C16: with cap = 2 and three calls back-to-back at time 0 (no pacing delay, no
\* processing time) the first two are admitted without waiting and the third
\* waits until the first timestamp is at least 60 seconds old; in general, with a
\* cap >= 1, an admission check that finds the window full at time t blocks for
\* exactly 60 - (t - oldest tracked timestamp) + 1 seconds, evicts again and
\* records the time after the wait; it never blocks while the window holds fewer
\* than cap timestamps.
WindowExhaustionWait ==
    /\ [][(calls' = calls + 1 /\ max_requests_per_minute >= 1) =>
            LET t == now' - waited'
                kept == SelectSeq(request_timestamps, LAMBDA x : t - x < 60)
            IN IF Len(kept) < max_requests_per_minute
               THEN /\ waited' = 0
                    /\ request_timestamps' = Append(kept, t)
               ELSE /\ waited' = 60 - (t - kept[1]) + 1
                    /\ now' - kept[1] >= 60
                    /\ request_timestamps'
                          = Append(SelectSeq(kept, LAMBDA x : now' - x < 60), now')]_vars
    /\ []((max_requests_per_minute = 2 /\ calls <= 2 /\ now = 0) => waited = 0)
    /\ [][(/\ max_requests_per_minute = 2
           /\ calls = 2 /\ now = 0 /\ request_timestamps = <<0, 0>>
           /\ calls' = 3 /\ now' - waited' = 0)
          => (waited' = 61 /\ now' = 61 /\ now' - request_timestamps[1] >= 60)]_vars

WindowExhaustionWitness ==
    /\ max_requests_per_minute = 2
    /\ calls = 3
    /\ waited = 61
    /\ now = 61
    /\ JustAdmitted
    /\ request_timestamps = <<61>>

\* The scenario of C17: a finished run with screenshots enabled, a screenshot cap
\* of 1 and an outline of two sections that both request images and both match
\* a priority keyword.
TwoEligibleSectionsCapOne ==
    /\ phase = "done"
    /\ enable_screenshots
    /\ max_screenshots = 1
    /\ Len(sections) = 2
    /\ \A i \in 1..2 :
          /\ planResult.sections[i].images # << >>
          /\ ShouldCaptureScreenshot(sections[i])

WithResolvedImage(secs) == {i \in 1..Len(secs) : Resolved(secs[i].images) # {}}

WithScreenshot(secs) ==
    {i \in 1..Len(secs) :
        \E k \in 1..Len(secs[i].images) : secs[i].images[k].path \in {ShotPath, TreePath}}

\* C17 as stated: in the scenario exactly one of the two sections has a media
\* item with a resolved path, every media item of the other is unresolved, and no
\* screenshot-targeting call is made after the cap was reached.
ScreenshotScenarioExactlyOne ==
    TwoEligibleSectionsCapOne =>
       /\ Cardinality(WithResolvedImage(assembled)) = 1
       /\ \A i \in ScreenshotCalls :
             \A k \in 1..(govCalls[i].section - 1) : k \notin WithScreenshot(assembled)

\* C17 amended: in the scenario at most one of the two sections has a media item
\* resolved by screenshot allocation: exactly one when a capture succeeded, none
\* when every capture failed or no target was returned; one item at most is
\* resolved that way; and no screenshot-targeting call is made for a section
\* visited after the cap was reached.
ScreenshotScenario ==
    TwoEligibleSectionsCapOne =>
       /\ Cardinality(WithScreenshot(assembled)) = screenshot_count
       /\ TotalScreenshots(assembled) = screenshot_count
       /\ screenshot_count <= 1
       /\ Cardinality(ScreenshotCalls) \in 1..2
       /\ \A i \in ScreenshotCalls :
             \A k \in 1..(govCalls[i].section - 1) : k \notin WithScreenshot(assembled)
       /\ 1 \in WithScreenshot(assembled) => Cardinality(ScreenshotCalls) = 1

ScreenshotScenarioWitness ==
    /\ TwoEligibleSectionsCapOne
    /\ WithScreenshot(assembled) = {1}
    /\ Cardinality(ScreenshotCalls) = 1
    /\ Len(assembled[1].images) = 2
    /\ WithResolvedImage(assembled) = {1}

\* C18: the screenshot-targeting calls of a run number at most the screenshot
\* cap and the diagram-generation calls at most the diagram cap, whatever the
\* length of the outline and whatever fails.
AncillaryCallsBoundedByCaps ==
    /\ Cardinality(ScreenshotCalls) <= max_screenshots
    /\ Cardinality(DiagramCalls) <= max_mermaid_diagrams

----------------------------------------------------------------------------
(* Properties of the fence cleanup *)

\* C13 as stated: the cleanup applied twice gives what it gives applied once, for
\* every text; and a text that does not begin with a fence after trimming is
\* returned trimmed and otherwise whole.
FenceStrippingIdempotent ==
    apc = "recleaned" =>
       /\ recleaned = plan_cleaned
       /\ ~StartsWith(Strip(raw), <<Backtick, Backtick, Backtick>>) => plan_cleaned = Strip(raw)

\* C13 amended: the cleanup applied twice gives what it gives applied once for
\* every text whose cleaned form does not itself begin with a fence; a text that
\* does not begin with a fence after trimming is returned trimmed and otherwise
\* whole (even when it ends with a fence), and cleaning it again changes nothing.
FenceStrippingIdempotentOnUnfenced ==
    apc = "recleaned" =>
       /\ ~StartsWith(plan_cleaned, <<Backtick, Backtick, Backtick>>) => recleaned = plan_cleaned
       /\ ~StartsWith(Strip(raw), <<Backtick, Backtick, Backtick>>) =>
             /\ plan_cleaned = Strip(raw)
             /\ recleaned = plan_cleaned

FenceStrippingWitness ==
    /\ apc = "recleaned"
    /\ raw = <<" ", "x", Backtick, Backtick, Backtick, "\n">>
    /\ plan_cleaned = <<"x", Backtick, Backtick, Backtick>>
    /\ recleaned = plan_cleaned

\* C14: a JSON body wrapped as blanks, fence, optional language tag, line break,
\* body, line break, fence, blanks is cleaned to exactly the body trimmed, also
\* when the body holds a fence of its own; a bare body is returned trimmed; and
\* the three copies of the cleanup agree on every text.
FenceRoundTrip ==
    apc # "response" =>
       /\ body.kind \in {"fenced", "bare"} => plan_cleaned = Strip(body.text)
       /\ targets_cleaned = plan_cleaned
       /\ test_cleaned = plan_cleaned

FenceRoundTripWitness ==
    /\ apc = "cleaned"
    /\ body.kind = "fenced"
    /\ body.text = <<"{", "\"", "a", "\"", ":", "\"", "x", " ", Backtick, Backtick, Backtick, "\"", "}">>
    /\ Len(raw) = Len(body.text) + 16
    /\ test_cleaned = body.text

----------------------------------------------------------------------------
(* Properties of the wrapper unwrap *)

IsSingleWrapper(v) == v.t = "obj" /\ DOMAIN v.o \in {{"documentation_plan"}, {"plan"}}

\* C15 as stated: for every object V and wrapper key k, the planner's outcome for
\* {k: V} is its outcome for V, also when V is itself a single-key object under
\* a wrapper key.
WrapperTransparent ==
    apc = "planned" => plan_wrapped = plan_bare

\* C15 amended: for every object V that is not itself a single-key object under
\* a wrapper key, and every wrapper key k, the planner's outcome for {k: V} is
\* its outcome for V; one level only is unwrapped, so when V is such a single-key
\* object the outcome for {k: V} is the fallback outline.
WrapperTransparentOneLevel ==
    apc = "planned" =>
       /\ ~IsSingleWrapper(value) => plan_wrapped = plan_bare
       /\ IsSingleWrapper(value) => (plan_wrapped.kind = "plan" /\ plan_wrapped.fallback)

WrapperTransparentWitness ==
    /\ apc = "planned"
    /\ wrap_key = "documentation_plan"
    /\ DOMAIN value.o = {"planTitle", "chapters", "extra"}
    /\ plan_bare.kind = "plan" /\ ~plan_bare.fallback
    /\ Len(plan_bare.sections) = 2
    /\ plan_wrapped = plan_bare

----------------------------------------------------------------------------
(* Properties of the code-fragment extraction *)

IsFenceLine(line) == StartsWith(Strip(line), <<Backtick, Backtick, Backtick>>)
IsBareFenceLine(line) == Strip(line) = <<Backtick, Backtick, Backtick>>
IsStartLine(line) == Contains(line, CodeBlockStart)
IsEndLine(line) == Contains(line, CodeBlockEnd)
IsDelimiter(line) == IsFenceLine(line) \/ IsStartLine(line) \/ IsEndLine(line)

\* The blocks of a text made of prose and well-delimited blocks: a fence line up
\* to the next bare fence line, CODE_BLOCK_START up to CODE_BLOCK_END, no
\* delimiter inside a block or astray outside one. ok tells whether the text is
\* of that form.
RECURSIVE Delimited(_, _, _, _, _)
Delimited(lines, i, mode, current, blocks) ==
    IF i > Len(lines) THEN [ok |-> mode = "prose", blocks |-> blocks]
    ELSE LET line == lines[i]
             closed == IF current # << >> THEN Append(blocks, JoinLines(current))
                       ELSE blocks
         IN CASE mode = "prose" /\ IsStartLine(line) ->
                    Delimited(lines, i + 1, "sentinel", << >>, blocks)
              [] mode = "prose" /\ ~IsStartLine(line) /\ IsFenceLine(line) ->
                    Delimited(lines, i + 1, "fence", << >>, blocks)
              [] mode = "prose" /\ ~IsStartLine(line) /\ ~IsFenceLine(line) ->
                    IF IsEndLine(line) THEN [ok |-> FALSE, blocks |-> blocks]
                    ELSE Delimited(lines, i + 1, "prose", << >>, blocks)
              [] mode = "fence" ->
                    IF IsBareFenceLine(line) /\ ~IsStartLine(line) /\ ~IsEndLine(line)
                    THEN Delimited(lines, i + 1, "prose", << >>, closed)
                    ELSE IF IsDelimiter(line) THEN [ok |-> FALSE, blocks |-> blocks]
                    ELSE Delimited(lines, i + 1, "fence", Append(current, line), blocks)
              [] mode = "sentinel" ->
                    IF IsEndLine(line) /\ ~IsStartLine(line) /\ ~IsFenceLine(line)
                    THEN Delimited(lines, i + 1, "prose", << >>, closed)
                    ELSE IF IsDelimiter(line) THEN [ok |-> FALSE, blocks |-> blocks]
                    ELSE Delimited(lines, i + 1, "sentinel", Append(current, line), blocks)

\* C19: for a returned text of prose and delimited blocks, code_blocks holds one
\* entry per fenced block and per CODE_BLOCK_START/CODE_BLOCK_END block that has at
\* least one line, made of exactly the lines between the delimiters, in order of
\* occurrence; and the section's content is the returned text unchanged.
CodeFragmentsExtracted ==
    apc = "extracted" =>
       /\ section_content = raw
       /\ Delimited(content_lines, 1, "prose", << >>, << >>).ok =>
             code_blocks = Delimited(content_lines, 1, "prose", << >>, << >>).blocks

----------------------------------------------------------------------------
(* Properties of the pacing of a governed run *)

ConfiguredDelay(request_type) ==
    CASE request_type = "section" -> type_delays.section
      [] request_type = "screenshot" -> type_delays.screenshot
      [] request_type = "diagram" -> type_delays.diagram
      [] OTHER -> 0

\* The generate_content calls of the current _make_request call still in the log
CurrentInvocations ==
    {k \in 1..Len(invocations) : k > Len(invocations) - callInvocations}

\* C20: in a run the plan call is the first _make_request call and the only one
\* made with delay=False; every other call (section, screenshot, diagram) first
\* sleeps the delay configured for its type, then passes _track_request, whose
\* timestamp is therefore taken after the sleep, and the service is invoked for
\* it only after both: never without an admission, never before the time at
\* which the admission completed.
PacingOrder ==
    /\ \A i \in 1..Len(govCalls) :
          /\ (i = 1) <=> (govCalls[i].type = "plan")
          /\ govCalls[i].delay <=> (i # 1)
    /\ paced.call = calls
    /\ calls >= 1 =>
          /\ (paced.call = 1) <=> (paced.type = "plan")
          /\ paced.delay <=> (paced.type # "plan")
          /\ paced.type \in {"plan", "section", "screenshot", "diagram"}
          /\ paced.slept = ConfiguredDelay(paced.type)
          /\ paced.admitted_at = paced.start + paced.slept + waited
          /\ request_timestamps # << >> =>
                request_timestamps[Len(request_timestamps)] = paced.admitted_at
          /\ Len(govCalls) = calls => govCalls[calls].type = paced.type
          /\ (gpc = "attempt" \/ callInvocations > 0) =>
                /\ request_timestamps # << >>
                /\ now >= paced.admitted_at
          /\ \A k \in CurrentInvocations :
                /\ invocations[k] >= paced.admitted_at
                /\ invocations[k] >= paced.start + ConfiguredDelay(paced.type)

\* A screenshot call that slept its own delay, was held back by the admission
\* check and then reached the service after a failed attempt
PacingOrderWitness ==
    /\ paced.type = "screenshot"
    /\ paced.call = 3
    /\ type_delays = DistinctDelays
    /\ paced.slept = 3
    /\ waited > 0
    /\ callInvocations = 2
    /\ outcome.kind = "returned"
----------------------------------------------------------------------------
(* Properties of the screenshot allocation of the content loop *)

\* Conditions (a) and (b) of the allocation, for a section whose content was
\* just written
EligibleForScreenshots(section, used, cap) ==
    /\ enable_screenshots
    /\ section.images # << >>
    /\ used < cap
    /\ \E k \in 1..Len(screenshot_priority) :
          Contains(Lower(section.title.s), screenshot_priority[k])

\* The content call of section idx returns in this step
ContentWritten ==
    /\ phase = "writing"
    /\ sub = "content"
    /\ Len(govCalls') = Len(govCalls) + 1
    /\ status' = -1

SectionsWritten == {i \in 1..Len(sections) : i < idx \/ (i = idx /\ sub # "content")}

TargetedSections == {govCalls[c].section : c \in ScreenshotCalls}

\* C21: a screenshot-targeting call is issued for a section if and only if, right
\* after its content was written, its title contains a screenshot priority keyword
\* (case-insensitive substring), screenshot_count is below the cap, the section
\* requests at least one image and screenshots are enabled; a section failing a
\* condition keeps all its media paths unresolved during the content loop, never
\* gets a screenshot path, and raises no error.
ScreenshotEligibility ==
    /\ [][ContentWritten =>
             ((phase' = "writing" /\ sub' = "targets" /\ idx' = idx)
                <=> EligibleForScreenshots(sections'[idx], screenshot_count',
                                           max_screenshots))]_vars
    /\ [][(phase = "writing" /\ sub = "targets") =>
             govCalls' = Append(govCalls, [type |-> "screenshot", delay |-> TRUE,
                                           section |-> idx])]_vars
    /\ [][(Len(govCalls') > Len(govCalls)
             /\ govCalls'[Len(govCalls')].type = "screenshot") =>
             (phase = "writing" /\ sub = "targets"
                /\ govCalls'[Len(govCalls')].section = idx)]_vars
    /\ [][(phase = "writing" /\ sub = "content" /\ status' # -1) =>
             (failure'.call = "section" /\ failure'.cause = "governor")]_vars
    /\ [](\A i \in SectionsWritten \ TargetedSections :
             /\ phase = "writing" => Resolved(sections[i].images) = {}
             /\ \A k \in 1..Len(sections[i].images) :
                   sections[i].images[k].path \notin {ShotPath, TreePath})

\* The second section is eligible and about to be targeted; the first one, with a
\* requested image but no priority keyword in its title, was passed over
ScreenshotEligibilityWitness ==
    /\ phase = "writing"
    /\ idx = 2
    /\ sub = "targets"
    /\ sections[1].images # << >>
    /\ ~EligibleForScreenshots(sections[1], screenshot_count, max_screenshots)
    /\ EligibleForScreenshots(sections[2], screenshot_count, max_screenshots)
    /\ TargetedSections = {}
    /\ status = -1

----------------------------------------------------------------------------
(* Properties of the diagram allocation *)

\* Position (from 0) of the first keyword of the list found in the title, -1
\* without one
RankIn(keywords, section) ==
    LET hits == {k \in 1..Len(keywords) : Contains(Lower(section.title.s), keywords[k])}
    IN IF hits = {} THEN -1 ELSE (CHOOSE k \in hits : \A m \in hits : k <= m) - 1

DiagramCallSections ==
    LET dc == SelectSeq(govCalls, LAMBDA c : c.type = "diagram")
    IN [k \in 1..Len(dc) |-> dc[k].section]

\* The state part: candidates, their order and the order of the diagram calls,
\* with ranks taken from the given keyword list
DiagramOrderBy(keywords) ==
    (enable_mermaid /\ phase \in {"diagrams", "live", "done"}) =>
       /\ {diagram_candidates[c] : c \in 1..Len(diagram_candidates)}
             = {i \in 1..Len(sections) : RankIn(keywords, sections[i]) >= 0}
       /\ \A c, d \in 1..Len(diagram_candidates) :
             c < d =>
                LET rc == RankIn(keywords, sections[diagram_candidates[c]])
                    rd == RankIn(keywords, sections[diagram_candidates[d]])
                IN \/ rc < rd
                   \/ rc = rd /\ diagram_candidates[c] < diagram_candidates[d]
       /\ Len(DiagramCallSections) <= Len(diagram_candidates)
       /\ \A k \in 1..Len(DiagramCallSections) :
             DiagramCallSections[k] = diagram_candidates[k]
       /\ \A a, b \in 1..Len(DiagramCallSections) :
             a < b => RankIn(keywords, sections[DiagramCallSections[a]])
                         <= RankIn(keywords, sections[DiagramCallSections[b]])

\* A resolved diagram is prepended to the media of its own section only
DiagramPrepended ==
    mermaid_count' > mermaid_count =>
       LET own == diagram_candidates[cidx] IN
       /\ sections'[own].images[1].path = DiagramPath
       /\ Tail(sections'[own].images) = sections[own].images
       /\ \A i \in 1..Len(sections) : i # own => sections'[i] = sections[i]

\* C22 as stated: ranks are positions in (architecture, overview, design,
\* components); candidates are the sections with a keyword, once each, visited
\* and called in ascending rank, equal ranks in outline order; a resolved diagram
\* is prepended to its own section.
DiagramPriorityOrderAsStated ==
    /\ [] DiagramOrderBy(<<KwArchitecture, KwOverview, KwDesign, KwComponents>>)
    /\ [][DiagramPrepended]_vars

\* C22, amended: the same with ranks taken as positions in (overview,
\* architecture, design, components), the list of line 1707.
DiagramPriorityOrder ==
    /\ [] DiagramOrderBy(<<KwOverview, KwArchitecture, KwDesign, KwComponents>>)
    /\ [][DiagramPrepended]_vars

\* Both sections of an outline that lists the architecture section before the
\* overview got their diagram call, the overview first, and the architecture
\* section holds its diagram in front of its requested image
DiagramPriorityOrderWitness ==
    /\ phase = "live"
    /\ Len(sections) = 2
    /\ diagram_candidates = <<2, 1>>
    /\ DiagramCallSections = <<2, 1>>
    /\ Len(sections[1].images) = 2
    /\ sections[1].images[1].path = DiagramPath
    /\ mermaid_count = 2

----------------------------------------------------------------------------
(* Properties of the target loop *)

ScreenshotPaths(section) ==
    {k \in 1..Len(section.images) : section.images[k].path \in {ShotPath, TreePath}}

\* One target of the list is handled in this step
TargetAttempted == phase = "writing" /\ sub = "capture" /\ j' = j + 1

\* C23: for an eligible section at most min(requested images, cap minus the
\* screenshots used when the section became eligible) targets are attempted; the
\* path resolved for the j-th target goes to the j-th media item of the section
\* and nowhere else, j being a valid index; a successful resolution raises
\* screenshot_count by exactly one, an unsuccessful one leaves it; the other
\* sections are unchanged.
PerSectionResolution ==
    /\ []((phase = "writing" /\ sub \in {"targets", "capture"}) =>
            /\ idx \in 1..Len(sections)
            /\ 0 <= j /\ j <= to_capture
            /\ to_capture =
                  Min(Len(sections[idx].images),
                      max_screenshots
                         - (screenshot_count - Cardinality(ScreenshotPaths(sections[idx]))))
            /\ ScreenshotPaths(sections[idx]) \subseteq 1..j)
    /\ [][TargetAttempted =>
            /\ j' \in 1..Len(sections[idx].images)
            /\ j' <= to_capture
            /\ \A i \in 1..Len(sections) : i # idx => sections'[i] = sections[i]
            /\ Len(sections'[idx].images) = Len(sections[idx].images)
            /\ \A k \in 1..Len(sections[idx].images) :
                  k # j' => sections'[idx].images[k] = sections[idx].images[k]
            /\ sections'[idx].images[j'].description = sections[idx].images[j'].description
            /\ IF sections'[idx].images[j'].path # sections[idx].images[j'].path
               THEN /\ sections'[idx].images[j'].path \in {ShotPath, TreePath}
                    /\ screenshot_count' = screenshot_count + 1
               ELSE screenshot_count' = screenshot_count]_vars
    /\ [][(phase = "writing" /\ sub = "capture" /\ j' = j) =>
            (sections' = sections /\ screenshot_count' = screenshot_count)]_vars

\* The second section had both of its requested images resolved, one target after
\* the other, while the first section kept what it had
PerSectionResolutionWitness ==
    /\ phase = "writing"
    /\ sub = "capture"
    /\ idx = 2
    /\ j = 2
    /\ ScreenshotPaths(sections[2]) = {1, 2}
    /\ screenshot_count = 2
    /\ sections[1].images # << >>
    /\ ScreenshotPaths(sections[1]) = {}

----------------------------------------------------------------------------
(* Properties of the shape repairs *)

\* The first of the keys, in the given order, that the object holds; "" without one
FirstKey(keys, obj) ==
    LET hits == {i \in 1..Len(keys) : keys[i] \in DOMAIN obj.o}
    IN IF hits = {} THEN "" ELSE keys[CHOOSE i \in hits : \A m \in hits : i <= m]

\* The object after the unwrap the claim describes
ClaimedUnwrap(v) ==
    IF DOMAIN v.o \in {{"documentation_plan"}, {"plan"}}
    THEN v.o[CHOOSE k \in DOMAIN v.o : TRUE]
    ELSE v

ClaimedTitle(u) ==
    LET k == FirstKey(<<"title", "planTitle", "project_name">>, u)
    IN IF k = "project_name"
       THEN JStr(u.o[k].s \o <<" ", "D", "o", "c", "u", "m", "e", "n", "t", "a", "t",
                               "i", "o", "n">>)
       ELSE u.o[k]

ClaimedSections(u) ==
    u.o[FirstKey(<<"sections", "documentationSections", "chapters", "content_sections",
                   "documentation_sections">>, u)]

----------------------------------------------------------------------------
(* Properties of the section count tiering *)

\* C25: for configured min_sections <= max_sections, a context (truncated to
\* 100,000 characters) shorter than 30,000 characters gets a range narrower than
\* the configured one (smaller width, not beyond the configured maximum); a
\* context at or above the threshold gets exactly [min_sections, max_sections].
SizeTiering ==
    (apc = "ranged" /\ min_sections <= max_sections) =>
       IF (IF context_len < 100000 THEN context_len ELSE 100000) < 30000
       THEN /\ actual_max_sections - actual_min_sections < max_sections - min_sections
            /\ actual_max_sections <= max_sections
       ELSE /\ actual_min_sections = min_sections
            /\ actual_max_sections = max_sections

\* C30: for 1 <= min_sections <= max_sections the range placed in the prompt has
\* lower bound <= upper bound, for small projects (max(5, min_sections - 4) to
\* max(9, max_sections - 6)) and for normal ones.
WellFormedSectionRange ==
    (apc = "ranged" /\ 1 <= min_sections /\ min_sections <= max_sections) =>
       actual_min_sections <= actual_max_sections

----------------------------------------------------------------------------
(* Properties of the window slot of a call *)

\* A _make_request call starts in this step
CallStarts == calls' = calls + 1

\* C26: every _make_request call runs the pacing sleep and the admission check
\* once, before its first attempt, and appends exactly one timestamp to
\* request_timestamps, whatever the number of attempts and whether it returns or
\* raises; the attempts neither run the admission check again nor add or remove
\* timestamps (time passes in them only by the backoff sleeps), and a failed call
\* keeps its slot.
OneWindowSlotPerCall ==
    /\ [][CallStarts =>
            /\ request_timestamps' = Append(EvictOld(request_timestamps, now'), now')
            /\ callInvocations' = 0]_vars
    /\ [][~CallStarts =>
            /\ request_timestamps' = request_timestamps
            /\ waited' = waited
            /\ now' # now =>
                  /\ nBackoffs' = nBackoffs + 1
                  /\ now' = now + lastBackoff'.delay]_vars

\* C29: whenever the cap-reached branch of _track_request is taken, for every cap
\* and every history, the window is not empty, the computed wait is strictly
\* positive, and after the wait the oldest timestamp is gone and the admission
\* completes by appending one timestamp.
AdmissionNeverReadsEmptyWindow ==
    [][CallStarts =>
          LET t == now' - waited'
              kept == EvictOld(request_timestamps, t)
          IN Len(kept) >= max_requests_per_minute =>
                /\ kept # << >>
                /\ waited' > 0
                /\ outcome'.kind = "pending"
                /\ request_timestamps' = Append(EvictOld(Tail(kept), now'), now')]_vars

----------------------------------------------------------------------------
(* Properties of the exception a call raises *)

\* C28: for every max_retries a _make_request call that raises has invoked the
\* service at least once, and what it raises is the exception of a service
\* invocation.
RaisesOnlyServiceExceptions ==
    outcome.kind = "raised" =>
       /\ callInvocations >= 1
       /\ outcome.value \in ErrMsgs
       /\ outcome.value = last_exception

----------------------------------------------------------------------------
(* Properties of the calls of a governed run *)

\* The returned calls of a type for a section (0 for the plan call)
CallsFor(type, section) ==
    {c \in 1..Len(govCalls) : govCalls[c].type = type /\ govCalls[c].section = section}

\* The section the call inside _make_request is made for
PendingSection ==
    CASE paced.type = "plan" -> 0
      [] paced.type \in {"section", "screenshot"} -> idx
      [] paced.type = "diagram" -> diagram_candidates[cidx]

CallBudget ==
    /\ Len(govCalls) <= calls /\ calls <= Len(govCalls) + 1
    /\ calls >= 1 => paced.call = calls
    /\ \A c \in 1..Len(govCalls) :
          /\ govCalls[c].type \in {"plan", "section", "screenshot", "diagram"}
          /\ govCalls[c].type = "plan" <=> c = 1
          /\ govCalls[c].type = "plan" => govCalls[c].section = 0
          /\ govCalls[c].type # "plan" => govCalls[c].section \in 1..Len(sections)
          /\ Cardinality(CallsFor(govCalls[c].type, govCalls[c].section)) = 1
    /\ calls = Len(govCalls) + 1 =>
          /\ (paced.type = "plan") <=> (calls = 1)
          /\ CallsFor(paced.type, PendingSection) = {}
    /\ status # -1 =>
          /\ calls = Len(govCalls)
          /\ Cardinality(CallsFor("plan", 0)) = 1
          /\ phase \in {"done", "aborted"}
    /\ phase = "done" =>
          /\ status = 0
          /\ \A i \in 1..Len(sections) : Cardinality(CallsFor("section", i)) = 1

\* C27: when every invocation, sleep, capture and render returns, a run ends, in
\* DONE or with the failure that left generate(), having issued exactly one plan
\* call, at most one content call per section (exactly one each at DONE), at
\* most one screenshot-targeting call and one diagram call per section: no
\* section is written, targeted or diagrammed twice.
RunTerminatesWithinBudget ==
    /\ [] CallBudget
    /\ <>(status # -1 /\ phase \in {"done", "aborted"} /\ gpc = "idle")

\* A run that reached DONE after a plan call, two content calls, a targeting call
\* and two diagram calls, one of its calls having needed a retry
RunTerminatesWitness ==
    /\ phase = "done"
    /\ Len(sections) = 2
    /\ Len(govCalls) = 6
    /\ Cardinality(ScreenshotCalls) = 1
    /\ Len(DiagramCallSections) = 2
    /\ nBackoffs >= 1

====
